---- MODULE Spec2Model ----
(***************************************************************************)
(* A model of the PNG decoder of mpizenberg/png-decoder.                   *)
(*                                                                         *)
(* The decoder is a pipeline of pure stages; each stage is modelled as an  *)
(* operator computed the way the Rust code computes it, and each stage is  *)
(* driven by its own specification:                                        *)
(*   Spec        the chunk-ordering fold of chunk.rs                       *)
(*               (validate_chunk_constraints / validate_chunk)             *)
(*   SpecGate    the control flow of the decode entry points of png.rs     *)
(*   SpecDecode  the data path of decode_no_check / decode_no_check_bis    *)
(*   SpecFrame   the framing of the byte stream (parse_chunks)             *)
(*   SpecFilter  the reconstruction of a raster filtered row by row        *)
(*   SpecPaeth   one call of paeth_predictor                               *)
(*   SpecInflate one call of inflate_idats                                 *)
(*   SpecIhdr    parse_ihdr_data, its unwrap, and scanline_width           *)
(*   SpecGet     one call of Png::get                                      *)
(*   SpecStrategies  one raster through filter::unfilter, unfilter_bis and *)
(*               unfilter_buffer                                           *)
(*   SpecSequence    the same three functions, one byte at a time          *)
(*   SpecInflateLive SpecInflate, with the call kept running               *)
(* Variables that a specification does not use keep their idle value.      *)
(***************************************************************************)
EXTENDS Integers, Sequences, FiniteSets, TLC

VARIABLES
    \* --- chunk.rs: validate_chunk_constraints -------------------------
    chunks,       \* the chunk types the fold has been handed so far
    present,      \* acc.0 of the fold
    authorized,   \* acc.1 of the fold
    vresult,      \* "folding", "Ok", or the Err message of validate_chunk
    ret,          \* the slice returned in Ok(chunks)
    \* --- png.rs: control flow of the decode entry points -------------
    entry,        \* the entry point that was called
    gpc,          \* the position in the entry point's body (1-based)
    gchunks,      \* the chunk types parse_chunks returned
    glog,         \* the stages that ran, in order
    goutcome,     \* "running", "Ok(Png)", "Ok(())", "Err" or "panic"
    \* --- png.rs: data path of decode_no_check / decode_no_check_bis ---
    dentry,          \* the entry point that was called
    dpc,             \* the statement the entry point is about to run
    overflow_checks, \* whether the build panics on integer overflow
    ihdr_data,       \* the IHDRData parsed from the first chunk
    inflated_idats,  \* the bytes inflate_idats returned
    scanlines,       \* the Vec lines_slices / lines_num returned
    png_img,         \* the Png returned
    doutcome,        \* "running", "Ok(Png)", "Err" or "panic"
    \* --- png.rs / chunk.rs: parse_chunks ------------------------------
    finput,       \* the bytes handed to parse_chunks
    fsent,        \* the complete chunks the input was made of
    ftail,        \* the truncated chunk that ends the input, if any
    fpc,          \* "tag", "many1_first", "many1_loop" or "done"
    frest,        \* the input not yet consumed
    facc,         \* the Vec<Chunk> many1 has collected
    fresult,      \* "running", "Ok" or "Err"
    \* the raster a filtered stream was made from
    original,     \* the rows of bytes before filtering
    filters,      \* the filter-type byte of each row
    \* one call of paeth_predictor
    paeth_args,   \* <<left, up, up_left>>, or <<>>
    paeth_ret,    \* the byte returned, or -1 before the call
    \* chunk_data.rs: one call of inflate_idats
    idats,        \* the data of the IDAT chunks, in order
    idat_lengths, \* the length field of each of these chunks (a u32)
    chunk_id,     \* id of the for loop, from 1; 0 before the first chunk
    in_pos,       \* bytes of the current chunk the decompressor consumed
    out_pos,      \* bytes the decompressor wrote in all
    inflate_ret,  \* ret, the output buffer
    decomp,       \* the state of the DecompressorOxide
    ipc,          \* "for", "loop" or "returned"
    iresult,      \* "running", "Ok" or "Err"
    icalls,       \* the invocations of the decompressor, in order
    iturns,       \* the parity of the number of invocations made
    \* chunk_data.rs: parse_ihdr_data and scanline_width on one IHDR
    ihdr_chunk_data, \* ihdr_chunk.data, the bytes handed to parse_ihdr_data
    ihdr_parsed,     \* the IResult of parse_ihdr_data
    stride,          \* what scanline_width returned
    hpc,             \* "parse_ihdr_data", "unwrap", "scanline_width" or "done"
    houtcome,        \* "running", "Ok" or "panic"
    \* png.rs: one call of Png::get
    get_args,     \* <<x, y>>, or <<>>
    get_ret,      \* the slice returned, or the panic
    \* filter.rs: one call of unfilter, unfilter_bis or unfilter_buffer
    strat_args,   \* width, height, bpp and the inflated bytes of the lines
    strat_called, \* the function that was called, or "none"
    strat_ret,    \* the Vec<u8> it returned, or the panic
    \* filter.rs: the same functions, one loop iteration at a time
    seq_args,     \* width, height, bpp and the inflated bytes of the lines
    seq_strategy, \* the function that is running
    seq_pc,       \* "fold", "loop", "returned" or "panic"
    seq_row,      \* the scanline the fold is at, from 1; 0 before the first
    seq_col,      \* i, the index in the line of the next byte
    seq_routine,  \* the decoder that is running on the line
    seq_data,     \* data, the pixel buffer
    seq_inflated, \* inflated, which unfilter_bis reads and overwrites
    seq_previous, \* previous or prev_buff, the scratch line
    seq_holds,    \* what each byte of the three buffers holds
    seq_writes,   \* how many times each byte of data was written
    seq_reads     \* what the last loop iteration read

vvars == <<chunks, present, authorized, vresult, ret>>
gvars == <<entry, gpc, gchunks, glog, goutcome>>
dvars == <<dentry, dpc, overflow_checks, ihdr_data, inflated_idats, scanlines,
           png_img, doutcome>>

fvars == <<finput, fsent, ftail, fpc, frest, facc, fresult>>

rvars == <<original, filters>>
pvars == <<paeth_args, paeth_ret>>
ivars == <<idats, idat_lengths, chunk_id, in_pos, out_pos, inflate_ret, decomp, ipc, iresult,
           icalls, iturns>>

hvars == <<ihdr_chunk_data, ihdr_parsed, stride, hpc, houtcome>>
xvars == <<get_args, get_ret>>
svars == <<strat_args, strat_called, strat_ret>>
qvars == <<seq_args, seq_strategy, seq_pc, seq_row, seq_col, seq_routine,
           seq_data, seq_inflated, seq_previous, seq_holds, seq_writes,
           seq_reads>>

vars == <<vvars, gvars, dvars, fvars, rvars, pvars, ivars, hvars, xvars,
          svars, qvars>>

\* The idle values of the variables of each component.
VIdle ==
    /\ chunks = <<>>
    /\ present = {}
    /\ authorized = {}
    /\ vresult = "idle"
    /\ ret = <<>>

GIdle ==
    /\ entry = "none"
    /\ gpc = 0
    /\ gchunks = <<>>
    /\ glog = <<>>
    /\ goutcome = "idle"

NoIHDR == [width |-> 0, height |-> 0, bit_depth |-> 0, color_type |-> "none"]
NoPng == [width |-> 0, height |-> 0, color_type |-> "none",
          bytes_per_pixel |-> 0, data |-> <<>>]

DIdle ==
    /\ dentry = "none"
    /\ dpc = "idle"
    /\ overflow_checks = FALSE
    /\ ihdr_data = NoIHDR
    /\ inflated_idats = <<>>
    /\ scanlines = <<>>
    /\ png_img = NoPng
    /\ doutcome = "idle"

RIdle ==
    /\ original = <<>>
    /\ filters = <<>>

PIdle ==
    /\ paeth_args = <<>>
    /\ paeth_ret = -1

\* DecompressorOxide::new() and init(): the header of the stream is
\* expected, nothing is pending and nothing was written.
NewDecompressor == [phase |-> "header", pending |-> 0, last |-> -1]

IIdle ==
    /\ idats = <<>>
    /\ idat_lengths = <<>>
    /\ chunk_id = 0
    /\ in_pos = 0
    /\ out_pos = 0
    /\ inflate_ret = <<>>
    /\ decomp = NewDecompressor
    /\ ipc = "idle"
    /\ iresult = "idle"
    /\ icalls = <<>>
    /\ iturns = 0

\* The Err of parse_ihdr_data (also the value before the call), and the
\* value of stride before scanline_width is called.
IhdrErr == [ok |-> FALSE, rest |-> <<>>, ihdr |-> NoIHDR]
NoStride == [panic |-> FALSE, value |-> <<>>]

HIdle ==
    /\ ihdr_chunk_data = <<>>
    /\ ihdr_parsed = IhdrErr
    /\ stride = NoStride
    /\ hpc = "idle"
    /\ houtcome = "idle"

XIdle ==
    /\ get_args = <<>>
    /\ get_ret = [panic |-> FALSE, slice |-> <<>>]

NoArgs == [width |-> 0, height |-> 0, bpp |-> 0, inflated |-> <<>>]
NoHolds == [data |-> <<>>, inflated |-> <<>>, previous |-> <<>>]

SIdle ==
    /\ strat_args = NoArgs
    /\ strat_called = "none"
    /\ strat_ret = [panic |-> FALSE, data |-> <<>>]

QIdle ==
    /\ seq_args = NoArgs
    /\ seq_strategy = "none"
    /\ seq_pc = "idle"
    /\ seq_row = 0
    /\ seq_col = 0
    /\ seq_routine = "none"
    /\ seq_data = <<>>
    /\ seq_inflated = <<>>
    /\ seq_previous = <<>>
    /\ seq_holds = NoHolds
    /\ seq_writes = <<>>
    /\ seq_reads = {}

FIdle ==
    /\ finput = <<>>
    /\ fsent = <<>>
    /\ ftail = <<>>
    /\ fpc = "idle"
    /\ frest = <<>>
    /\ facc = <<>>
    /\ fresult = "idle"

(***************************************************************************)
(* chunk.rs: ChunkType.  A chunk type is its name; Unknown(name) is the    *)
(* one value "Unknown": validate_chunk never looks at the carried name.    *)
(***************************************************************************)
KnownChunkTypes ==
    { "IHDR", "PLTE", "IDAT", "IEND",
      "tRNS", "gAMA", "cHRM", "sRGB", "iCCP", "tEXt", "zTXt", "iTXt",
      "bKGD", "pHYs", "sBIT", "sPLT", "hIST", "tIME" }

ChunkType == KnownChunkTypes \cup {"Unknown"}

\* The longest chunk sequence handed to the fold.
MaxChunks == 5

\* Chunks that can only happen before PLTE
BEFORE_PLTE_CHUNKS == {"PLTE", "gAMA", "cHRM", "sRGB", "iCCP", "sBIT"}

\* A BEFORE_IDAT_CHUNKS without sPLT.
BEFORE_IDAT_CHUNKS_WithoutSPLT ==
    { "PLTE", "tRNS", "gAMA", "cHRM", "sRGB", "iCCP",
      "bKGD", "pHYs", "sBIT", "hIST" }

\* Chunks that can only happen before IDAT
BEFORE_IDAT_CHUNKS ==
    { "PLTE", "tRNS", "gAMA", "cHRM", "sRGB", "iCCP",
      "bKGD", "pHYs", "sBIT", "sPLT", "hIST" }

\* A START_CHUNKS that holds IEND too.
START_CHUNKS_WithIEND ==
    { "PLTE", "IDAT", "IEND", "tRNS", "gAMA", "cHRM", "sRGB", "iCCP", "tEXt",
      "zTXt", "iTXt", "bKGD", "pHYs", "sBIT", "sPLT", "hIST", "tIME" }

\* Authorized chunks after IHDR: everything except IHDR and IEND
START_CHUNKS ==
    { "PLTE", "IDAT", "tRNS", "gAMA", "cHRM", "sRGB", "iCCP", "tEXt",
      "zTXt", "iTXt", "bKGD", "pHYs", "sBIT", "sPLT", "hIST", "tIME" }

VOk(p, a) == [ok |-> TRUE, present |-> p, authorized |-> a, err |-> ""]
VErr(msg) == [ok |-> FALSE, present |-> {}, authorized |-> {}, err |-> msg]

\* A variant of the IEND arm that leaves the authorized set as it was.
ArmIEND_KeepsAuthorized(p, a) == VOk(p \cup {"IEND"}, a)

\* The IEND arm.
ArmIEND(p, a) == VOk(p \cup {"IEND"}, {})

\* A variant of the IDAT arm that forgets to authorize IEND.
ArmIDAT_NoIEND(p, a) ==
    IF "IDAT" \notin p
    THEN VOk(p \cup {"IDAT"}, a \ BEFORE_IDAT_CHUNKS)
    ELSE VOk(p, a)

\* A variant of the IDAT arm that authorizes IEND from the second IDAT on.
ArmIDAT_LateIEND(p, a) ==
    IF "IDAT" \notin p
    THEN VOk(p \cup {"IDAT"}, a \ BEFORE_IDAT_CHUNKS)
    ELSE VOk(p, a \cup {"IEND"})

\* The IDAT arm: only the first IDAT changes the sets.
ArmIDAT(p, a) ==
    IF "IDAT" \notin p
    THEN VOk(p \cup {"IDAT"}, (a \ BEFORE_IDAT_CHUNKS) \cup {"IEND"})
    ELSE VOk(p, a)

\* A variant of the PLTE arm that leaves PLTE authorized.
ArmPLTE_KeepsPLTE(p, a) == VOk(p \cup {"PLTE"}, a \ (BEFORE_PLTE_CHUNKS \ {"PLTE"}))

\* The PLTE arm.
ArmPLTE(p, a) == VOk(p \cup {"PLTE"}, a \ BEFORE_PLTE_CHUNKS)

\* A variant of the IHDR arm that leaves IHDR authorized.
ArmIHDR_KeepsIHDR(p, a) == VOk(p \cup {"IHDR"}, START_CHUNKS \cup {"IHDR"})

\* The IHDR arm.
ArmIHDR(p, a) == VOk(p \cup {"IHDR"}, START_CHUNKS)

\* A variant of the text arms without the IDAT revocation.
ArmText_NoRevocation(t, p, a) == VOk(p \cup {t}, a)

\* The iTXt, tEXt and zTXt arms: present.insert(self), then the IDAT revocation.
ArmText(t, p, a) ==
    VOk(p \cup {t}, IF "IDAT" \in (p \cup {t}) THEN a \ {"IDAT"} ELSE a)

\* A variant of the tIME arm that leaves tIME authorized.
ArmTIME_KeepsTIME(p, a) ==
    VOk(p \cup {"tIME"},
        IF "IDAT" \in (p \cup {"tIME"}) THEN a \ {"IDAT"} ELSE a)

\* The tIME arm.
ArmTIME(p, a) ==
    VOk(p \cup {"tIME"},
        IF "IDAT" \in (p \cup {"tIME"})
        THEN (a \ {"tIME"}) \ {"IDAT"} ELSE a \ {"tIME"})

\* The match of validate_chunk, entered when the type is authorized.
validate_arm(p, a, t) ==
    CASE t = "IHDR" -> ArmIHDR(p, a)
      [] t = "PLTE" -> ArmPLTE(p, a)
      [] t = "IDAT" -> ArmIDAT(p, a)
      [] t = "IEND" -> ArmIEND(p, a)
      [] t \in {"cHRM", "gAMA", "iCCP", "sBIT", "sRGB"} ->
           VOk(p \cup {t}, a \ {t})
      [] t \in {"bKGD", "hIST", "tRNS"} ->
           VOk(p \cup {t}, (a \ {"PLTE"}) \ {t})
      [] t = "pHYs" -> VOk(p \cup {t}, a \ {t})
      [] t = "sPLT" -> VOk(p \cup {t}, a)
      [] t = "tIME" -> ArmTIME(p, a)
      [] t \in {"iTXt", "tEXt", "zTXt"} -> ArmText(t, p, a)
      [] OTHER -> VErr("chunks are not handled for now")

\* A variant of validate_chunk that skips Unknown chunks instead of failing.
validate_chunk_SkipsUnknown(p, a, t) ==
    IF t = "Unknown" THEN VOk(p, a)
    ELSE IF t \in a THEN validate_arm(p, a, t)
    ELSE VErr("Unauthorized chunk")

\* fn validate_chunk(acc, chunk): one step of the fold.
validate_chunk(p, a, t) ==
    IF t \in a THEN validate_arm(p, a, t) ELSE VErr("Unauthorized chunk")

\* The value Ok(chunks) of validate_chunk_constraints.
OkSlice(cs) == cs

\* validate_chunk_constraints, before the fold: (HashSet::new(), {IHDR}).
VInit ==
    /\ chunks = <<>>
    /\ present = {}
    /\ authorized = {"IHDR"}
    /\ vresult = "folding"
    /\ ret = <<>>

\* One iteration of chunks.iter().try_fold(.., validate_chunk): the next
\* chunk of the slice is of type t; an Err ends the fold (the ? operator).
FoldStep(t) ==
    /\ vresult = "folding"
    /\ Len(chunks) < MaxChunks
    /\ LET r == validate_chunk(present, authorized, t) IN
         /\ chunks' = Append(chunks, t)
         /\ present' = (IF r.ok THEN r.present ELSE present)
         /\ authorized' = (IF r.ok THEN r.authorized ELSE authorized)
         /\ vresult' = (IF r.ok THEN "folding" ELSE r.err)
         /\ ret' = ret
    /\ UNCHANGED <<gvars, dvars, fvars, rvars, pvars, ivars, hvars, xvars, svars, qvars>>

\* The slice is exhausted: Ok(chunks).  The slice is the Vec built by
\* many1(Chunk::parse) in parse_chunks, which holds at least one chunk.
FoldEnd ==
    /\ vresult = "folding"
    /\ Len(chunks) >= 1
    /\ vresult' = "Ok"
    /\ ret' = OkSlice(chunks)
    /\ UNCHANGED <<chunks, present, authorized>>
    /\ UNCHANGED <<gvars, dvars, fvars, rvars, pvars, ivars, hvars, xvars, svars, qvars>>

Init == VInit /\ GIdle /\ DIdle /\ FIdle /\ RIdle /\ PIdle /\ IIdle /\ HIdle /\ XIdle /\ SIdle /\ QIdle

Next ==
    \/ \E t \in ChunkType : FoldStep(t)
    \/ FoldEnd

Spec == Init /\ [][Next]_vars


(***************************************************************************)
(* filter.rs: scanline reconstruction.  A byte is a number in 0..255; a    *)
(* Vec or slice is a sequence, and index i of the code is index i + 1      *)
(* here.  A decoder yields the buffer it wrote and the start of the next   *)
(* line, or panics (a slice or an index out of range, an assertion).       *)
(***************************************************************************)
Zeros(n) == [i \in 1..n |-> 0]

Panicked == [panic |-> TRUE, data |-> <<>>, next |-> 0]
Decoded(d, n) == [panic |-> FALSE, data |-> d, next |-> n]

\* An addition that saturates at 255.
wrapping_add_Saturates(x, y) == IF x + y > 255 THEN 255 ELSE x + y

\* u8::wrapping_add
wrapping_add(x, y) == (x + y) % 256

\* Filter::try_from(value): the filter, or "Err" for a value above 4.
FilterTryFrom(value) ==
    CASE value = 0 -> "None"
      [] value = 1 -> "Sub"
      [] value = 2 -> "Up"
      [] value = 3 -> "Average"
      [] value = 4 -> "Paeth"
      [] OTHER -> "Err"

\* data[start..start + Len(src)].copy_from_slice(src)
CopyInto(data, start, src) ==
    [i \in 1..Len(data) |->
        IF i > start /\ i <= start + Len(src) THEN src[i - start] ELSE data[i]]

\* fn paeth_predictor(left, up, up_left), computed in i16.
Abs(x) == IF x < 0 THEN -x ELSE x

\* A predictor that gives a tie of pa and pc to up_left.
paeth_predictor_TieToUpLeft(left, up, up_left) ==
    LET p == left + up - up_left
        pa == Abs(p - left)
        pb == Abs(p - up)
        pc == Abs(p - up_left)
    IN IF pa <= pb /\ pa < pc THEN left
       ELSE IF pb <= pc THEN up
       ELSE up_left

paeth_predictor(left, up, up_left) ==
    LET p == left + up - up_left
        pa == Abs(p - left)
        pb == Abs(p - up)
        pc == Abs(p - up_left)
    IN IF pa <= pb /\ pa <= pc THEN left
       ELSE IF pb <= pc THEN up
       ELSE up_left

\* fn decode_none
decode_none(line, line_start, data) ==
    LET next_line_start == line_start + Len(line) IN
    IF next_line_start > Len(data) THEN Panicked
    ELSE Decoded(CopyInto(data, line_start, line), next_line_start)

\* decode_sub: line.iter().enumerate().skip(bpp).for_each(..), from index i.
RECURSIVE SubLoop(_, _, _, _, _)
SubLoop(bpp, line, line_start, data, i) ==
    IF i >= Len(line) THEN data
    ELSE LET left == data[line_start + i - bpp + 1] IN
         SubLoop(bpp, line, line_start,
                 [data EXCEPT ![line_start + i + 1] =
                     wrapping_add(line[i + 1], left)],
                 i + 1)

\* fn decode_sub
decode_sub(bpp, line, line_start, data) ==
    IF \/ bpp > Len(line)
       \/ line_start + bpp > Len(data)
       \/ line_start + Len(line) > Len(data)
    THEN Panicked
    ELSE Decoded(SubLoop(bpp, line, line_start,
                         CopyInto(data, line_start, SubSeq(line, 1, bpp)),
                         bpp),
                 line_start + Len(line))

\* fn decode_up
decode_up(line, line_start, data) ==
    IF line_start = 0 THEN decode_none(line, line_start, data)
    ELSE IF line_start < Len(line) \/ line_start + Len(line) > Len(data)
    THEN Panicked
    ELSE LET previous_line_start == line_start - Len(line) IN
         Decoded([i \in 1..Len(data) |->
                     IF i > line_start /\ i <= line_start + Len(line)
                     THEN wrapping_add(line[i - line_start],
                                       data[previous_line_start + (i - line_start)])
                     ELSE data[i]],
                 line_start + Len(line))

\* decode_average: both for_each loops, from index i.
RECURSIVE AverageLoop(_, _, _, _, _)
AverageLoop(bpp, line, line_start, data, i) ==
    IF i >= Len(line) THEN data
    ELSE LET up == data[line_start - Len(line) + i + 1]
             add == IF i < bpp
                    THEN up \div 2
                    ELSE (up + data[line_start - bpp + i + 1]) \div 2
         IN AverageLoop(bpp, line, line_start,
                        [data EXCEPT ![line_start + i + 1] =
                            wrapping_add(line[i + 1], add)],
                        i + 1)

\* fn decode_average
decode_average(bpp, line, line_start, data) ==
    IF line_start = 0 THEN decode_sub(bpp, line, line_start, data)
    ELSE IF \/ line_start < Len(line)
            \/ line_start < bpp
            \/ line_start + Len(line) > Len(data)
    THEN Panicked
    ELSE Decoded(AverageLoop(bpp, line, line_start, data, 0),
                 line_start + Len(line))

\* A decode_paeth that copies the line.
decode_paeth_Copies(checks, bpp, line, line_start, data) ==
    decode_none(line, line_start, data)

\* decode_paeth: both for_each loops, from index i.
RECURSIVE PaethLoop(_, _, _, _, _)
PaethLoop(bpp, line, line_start, data, i) ==
    IF i >= Len(line) THEN data
    ELSE LET previous_line_start == line_start - Len(line)
             up == data[previous_line_start + i + 1]
             add == IF i < bpp
                    THEN up
                    ELSE paeth_predictor(data[line_start - bpp + i + 1], up,
                                         data[previous_line_start - bpp + i + 1])
         IN PaethLoop(bpp, line, line_start,
                      [data EXCEPT ![line_start + i + 1] =
                          wrapping_add(line[i + 1], add)],
                      i + 1)

\* fn decode_paeth.  previous_line_start - bpp is computed in usize before
\* the loop: on the second line it is 0 - bpp, which panics in a build with
\* overflow checks and wraps (and wraps back when i is added) without them.
decode_paeth(checks, bpp, line, line_start, data) ==
    IF line_start = 0 THEN decode_sub(bpp, line, line_start, data)
    ELSE IF \/ line_start < Len(line)
            \/ line_start < bpp
            \/ checks /\ line_start - Len(line) < bpp
            \/ line_start + Len(line) > Len(data)
    THEN Panicked
    ELSE Decoded(PaethLoop(bpp, line, line_start, data, 0),
                 line_start + Len(line))

\* The fold of filter::unfilter over the lines, from scanline k.
RECURSIVE UnfilterFold(_, _, _, _, _, _)
UnfilterFold(checks, bpp, lines, k, line_start, data) ==
    IF k > Len(lines) THEN Decoded(data, line_start)
    ELSE LET filter == lines[k].filter
             line == lines[k].line
             r == CASE filter = "None" -> decode_none(line, line_start, data)
                    [] filter = "Sub" -> decode_sub(bpp, line, line_start, data)
                    [] filter = "Up" -> decode_up(line, line_start, data)
                    [] filter = "Average" ->
                         decode_average(bpp, line, line_start, data)
                    [] filter = "Paeth" ->
                         decode_paeth(checks, bpp, line, line_start, data)
         IN IF r.panic THEN Panicked
            ELSE UnfilterFold(checks, bpp, lines, k + 1, r.next, r.data)

\* pub fn unfilter(width, height, bpp, lines) -> Vec<u8>
filter_unfilter(checks, width, height, bpp, lines) ==
    IF height # Len(lines) THEN Panicked
    ELSE UnfilterFold(checks, bpp, lines, 1, 0,
                      Zeros(bpp * width * height))

(***************************************************************************)
(* filter.rs: unfilter_buffer, which is unfilter with decode_paeth_buf in  *)
(* the place of decode_paeth: the line above is copied into the scratch    *)
(* buffer previous and read from there.                                    *)
(***************************************************************************)
\* decode_paeth_buf: both for_each loops, from index i.
RECURSIVE PaethBufLoop(_, _, _, _, _, _)
PaethBufLoop(bpp, line, line_start, data, previous, i) ==
    IF i >= Len(line) THEN data
    ELSE LET up == previous[i + 1]
             add == IF i < bpp
                    THEN up
                    ELSE paeth_predictor(data[line_start - bpp + i + 1], up,
                                         previous[i - bpp + 1])
         IN PaethBufLoop(bpp, line, line_start,
                         [data EXCEPT ![line_start + i + 1] =
                             wrapping_add(line[i + 1], add)],
                         previous, i + 1)

\* fn decode_paeth_buf.  copy_from_slice panics when the line above is not
\* as long as previous.
decode_paeth_buf(bpp, line, line_start, data, previous) ==
    IF line_start = 0 THEN decode_sub(bpp, line, line_start, data)
    ELSE IF \/ line_start < Len(line)
            \/ line_start > Len(data)
            \/ Len(previous) # Len(line)
            \/ line_start < bpp
            \/ line_start + Len(line) > Len(data)
    THEN Panicked
    ELSE Decoded(PaethBufLoop(bpp, line, line_start, data,
                              SubSeq(data, line_start - Len(line) + 1, line_start),
                              0),
                 line_start + Len(line))

\* The fold of filter::unfilter_buffer over the lines, from scanline k.
RECURSIVE UnfilterBufferFold(_, _, _, _, _, _)
UnfilterBufferFold(bpp, lines, k, line_start, data, previous) ==
    IF k > Len(lines) THEN Decoded(data, line_start)
    ELSE LET filter == lines[k].filter
             line == lines[k].line
             r == CASE filter = "None" -> decode_none(line, line_start, data)
                    [] filter = "Sub" -> decode_sub(bpp, line, line_start, data)
                    [] filter = "Up" -> decode_up(line, line_start, data)
                    [] filter = "Average" ->
                         decode_average(bpp, line, line_start, data)
                    [] filter = "Paeth" ->
                         decode_paeth_buf(bpp, line, line_start, data, previous)
         IN IF r.panic THEN Panicked
            ELSE UnfilterBufferFold(bpp, lines, k + 1, r.next, r.data, previous)

\* pub fn unfilter_buffer(width, height, bpp, lines) -> Vec<u8>
filter_unfilter_buffer(width, height, bpp, lines) ==
    UnfilterBufferFold(bpp, lines, 1, 0, Zeros(bpp * width * height),
                       Zeros(bpp * width))

(***************************************************************************)
(* filter.rs: unfilter_bis and its decoders, which read the lines from the *)
(* inflated buffer (line i starts at inflated[start]); decode_paeth_bis    *)
(* reconstructs the line in place in the inflated buffer.                  *)
(***************************************************************************)
PanickedBis == [panic |-> TRUE, data |-> <<>>, inflated |-> <<>>, next |-> 0]
DecodedBis(d, inf, n) == [panic |-> FALSE, data |-> d, inflated |-> inf, next |-> n]

\* fn decode_none_bis
decode_none_bis(len, start, inflated, data_start, data) ==
    IF start + len > Len(inflated) \/ data_start + len > Len(data)
    THEN PanickedBis
    ELSE DecodedBis(CopyInto(data, data_start, SubSeq(inflated, start + 1, start + len)),
                    inflated, data_start + len)

\* decode_sub_bis: for i in bpp..len
RECURSIVE SubBisLoop(_, _, _, _, _, _, _)
SubBisLoop(bpp, len, start, inflated, data_start, data, i) ==
    IF i >= len THEN data
    ELSE SubBisLoop(bpp, len, start, inflated, data_start,
                    [data EXCEPT ![data_start + i + 1] =
                        wrapping_add(inflated[start + i + 1],
                                     data[data_start + i - bpp + 1])],
                    i + 1)

\* fn decode_sub_bis
decode_sub_bis(bpp, len, start, inflated, data_start, data) ==
    IF \/ data_start + bpp > Len(data)
       \/ start + bpp > Len(inflated)
       \/ len > bpp /\ (data_start + len > Len(data) \/ start + len > Len(inflated))
    THEN PanickedBis
    ELSE DecodedBis(
            SubBisLoop(bpp, len, start, inflated, data_start,
                       CopyInto(data, data_start,
                                SubSeq(inflated, start + 1, start + bpp)),
                       bpp),
            inflated, data_start + len)

\* fn decode_up_bis
decode_up_bis(len, start, inflated, data_start, data) ==
    IF data_start = 0 THEN decode_none_bis(len, start, inflated, data_start, data)
    ELSE IF \/ data_start < len
            \/ len > 0 /\ (data_start + len > Len(data) \/ start + len > Len(inflated))
    THEN PanickedBis
    ELSE LET previous_data_start == data_start - len IN
         DecodedBis([i \in 1..Len(data) |->
                        IF i > data_start /\ i <= data_start + len
                        THEN wrapping_add(inflated[start + (i - data_start)],
                                          data[previous_data_start + (i - data_start)])
                        ELSE data[i]],
                    inflated, data_start + len)

\* decode_average_bis: for i in 0..bpp, then for i in bpp..len
RECURSIVE AverageBisLoop(_, _, _, _, _, _, _)
AverageBisLoop(bpp, len, start, inflated, data_start, data, i) ==
    IF i >= len THEN data
    ELSE LET up == data[data_start - len + i + 1]
             add == IF i < bpp
                    THEN up \div 2
                    ELSE (up + data[data_start + i - bpp + 1]) \div 2
         IN AverageBisLoop(bpp, len, start, inflated, data_start,
                           [data EXCEPT ![data_start + i + 1] =
                               wrapping_add(inflated[start + i + 1], add)],
                           i + 1)

\* fn decode_average_bis
decode_average_bis(bpp, len, start, inflated, data_start, data) ==
    IF data_start = 0 THEN decode_sub_bis(bpp, len, start, inflated, data_start, data)
    ELSE IF \/ data_start < len
            \/ len < bpp
            \/ data_start + len > Len(data)
            \/ start + len > Len(inflated)
    THEN PanickedBis
    ELSE DecodedBis(AverageBisLoop(bpp, len, start, inflated, data_start, data, 0),
                    inflated, data_start + len)

\* decode_paeth_bis: both loops over current = inflated[start..start + len],
\* which is overwritten with the reconstructed bytes.
RECURSIVE PaethBisLoop(_, _, _, _, _)
PaethBisLoop(bpp, len, current, prev_buff, i) ==
    IF i >= len THEN current
    ELSE LET add == IF i < bpp
                    THEN prev_buff[i + 1]
                    ELSE paeth_predictor(current[i - bpp + 1], prev_buff[i + 1],
                                         prev_buff[i - bpp + 1])
         IN PaethBisLoop(bpp, len,
                         [current EXCEPT ![i + 1] = wrapping_add(current[i + 1], add)],
                         prev_buff, i + 1)

\* fn decode_paeth_bis
decode_paeth_bis(bpp, len, start, inflated, data_start, data) ==
    IF data_start = 0 THEN decode_sub_bis(bpp, len, start, inflated, data_start, data)
    ELSE IF \/ data_start < len
            \/ data_start > Len(data)
            \/ start + len > Len(inflated)
            \/ len < bpp
            \/ data_start + len > Len(data)
    THEN PanickedBis
    ELSE LET prev_buff == SubSeq(data, data_start - len + 1, data_start)
             current == PaethBisLoop(bpp, len,
                                     SubSeq(inflated, start + 1, start + len),
                                     prev_buff, 0)
         IN DecodedBis(CopyInto(data, data_start, current),
                       CopyInto(inflated, start, current),
                       data_start + len)

\* The fold of filter::unfilter_bis over the lines, from scanline k.
RECURSIVE UnfilterBisFold(_, _, _, _, _, _, _)
UnfilterBisFold(bpp, len, lines, k, inflated, data_start, data) ==
    IF k > Len(lines) THEN DecodedBis(data, inflated, data_start)
    ELSE LET filter == lines[k].filter
             start == lines[k].start
             r == CASE filter = "None" ->
                         decode_none_bis(len, start, inflated, data_start, data)
                    [] filter = "Sub" ->
                         decode_sub_bis(bpp, len, start, inflated, data_start, data)
                    [] filter = "Up" ->
                         decode_up_bis(len, start, inflated, data_start, data)
                    [] filter = "Average" ->
                         decode_average_bis(bpp, len, start, inflated, data_start, data)
                    [] filter = "Paeth" ->
                         decode_paeth_bis(bpp, len, start, inflated, data_start, data)
         IN IF r.panic THEN PanickedBis
            ELSE UnfilterBisFold(bpp, len, lines, k + 1, r.inflated, r.next, r.data)

\* pub fn unfilter_bis(width, height, bpp, lines, inflated) -> Vec<u8>
filter_unfilter_bis(width, height, bpp, lines, inflated) ==
    UnfilterBisFold(bpp, bpp * width, lines, 1, inflated, 0,
                    Zeros(height * (bpp * width)))

(***************************************************************************)
(* png.rs: the decode entry points, as sequences of stages.  The data the  *)
(* stages work on is left out here: a stage that can fail on some data     *)
(* either succeeds or fails.  The chunk sequence is kept, and              *)
(* validate_chunk_constraints is computed on it by the fold above.         *)
(***************************************************************************)
\* The longest chunk sequence parse_chunks returns here.
MaxGateChunks == 4

\* The chunk types the framed sequences are drawn from.
GateChunkTypes == {"IHDR", "PLTE", "IDAT", "IEND", "tEXt", "Unknown"}

Entries ==
    { "decode_no_check", "decode_no_check_bis", "decode_verbose",
      "decode_no_check_verbose", "decode_no_check_verbose_bis" }

\* decode_no_check and decode_no_check_verbose
decode_no_check_stages ==
    << "parse_chunks", "parse_ihdr_data", "inflate_idats",
       "lines_slices", "unfilter" >>

\* decode_no_check_bis and decode_no_check_verbose_bis
decode_no_check_bis_stages ==
    << "parse_chunks", "parse_ihdr_data", "inflate_idats",
       "lines_num", "unfilter_bis" >>

\* A variant of decode_verbose that validates after inflating.
decode_verbose_stages_LateValidation ==
    << "parse_chunks", "inflate_idats", "validate_chunk_constraints",
       "parse_ihdr_data", "lines_slices", "unfilter", "get",
       "parse_chunk_data" >>

\* decode_verbose
decode_verbose_stages ==
    << "parse_chunks", "validate_chunk_constraints", "inflate_idats",
       "parse_ihdr_data", "lines_slices", "unfilter", "get",
       "parse_chunk_data" >>

Stages(e) ==
    CASE e \in {"decode_no_check", "decode_no_check_verbose"} ->
            decode_no_check_stages
      [] e \in {"decode_no_check_bis", "decode_no_check_verbose_bis"} ->
            decode_no_check_bis_stages
      [] e = "decode_verbose" -> decode_verbose_stages

\* What the entry point returns when its body runs to the end.
ReturnValue(e) == IF e = "decode_verbose" THEN "Ok(())" ELSE "Ok(Png)"

\* chunks.iter().try_fold((HashSet::new(), {IHDR}), validate_chunk) is Ok.
RECURSIVE FoldOk(_, _, _, _)
FoldOk(cs, i, p, a) ==
    IF i > Len(cs) THEN TRUE
    ELSE LET r == validate_chunk(p, a, cs[i]) IN
         IF r.ok THEN FoldOk(cs, i + 1, r.present, r.authorized) ELSE FALSE

validate_chunk_constraints(cs) == FoldOk(cs, 1, {}, {"IHDR"})

GInit ==
    /\ entry \in Entries
    /\ gpc = 1
    /\ gchunks = <<>>
    /\ glog = <<>>
    /\ goutcome = "running"

\* The stage the entry point is about to run.
AtStage(names) ==
    /\ goutcome = "running"
    /\ gpc <= Len(Stages(entry))
    /\ Stages(entry)[gpc] \in names

\* The stage ran and the body goes on.
StageDone ==
    /\ glog' = Append(glog, Stages(entry)[gpc])
    /\ gpc' = gpc + 1
    /\ goutcome' = goutcome

\* The stage ran and ended the call with outcome o.
StageEnds(o) ==
    /\ glog' = Append(glog, Stages(entry)[gpc])
    /\ gpc' = gpc
    /\ goutcome' = o

\* match parse_chunks(input): Ok((_, chunks)) with at least one chunk
\* (many1), or Err(e); decode_verbose prints the error and returns Ok(()).
GParseChunks ==
    /\ AtStage({"parse_chunks"})
    /\ \/ \E n \in 1..MaxGateChunks : \E cs \in [1..n -> GateChunkTypes] :
             gchunks' = cs /\ StageDone
       \/ /\ StageEnds(IF entry = "decode_verbose" THEN "Ok(())" ELSE "Err")
          /\ gchunks' = gchunks
    /\ UNCHANGED <<entry>>
    /\ UNCHANGED <<vvars, dvars, fvars, rvars, pvars, ivars, hvars, xvars, svars, qvars>>

\* let chunks_valid = chunk::validate_chunk_constraints(&chunks)?;
GValidate ==
    /\ AtStage({"validate_chunk_constraints"})
    /\ IF validate_chunk_constraints(gchunks) THEN StageDone ELSE StageEnds("Err")
    /\ UNCHANGED <<entry, gchunks>>
    /\ UNCHANGED <<vvars, dvars, fvars, rvars, pvars, ivars, hvars, xvars, svars, qvars>>

\* chunk_data::parse_ihdr_data(ihdr_chunk.data).unwrap(): the data of the
\* first chunk parses as an IHDR, or unwrap panics.
GParseIhdr ==
    /\ AtStage({"parse_ihdr_data"})
    /\ (StageDone \/ StageEnds("panic"))
    /\ UNCHANGED <<entry, gchunks>>
    /\ UNCHANGED <<vvars, dvars, fvars, rvars, pvars, ivars, hvars, xvars, svars, qvars>>

\* chunk_data::inflate_idats(idats.as_slice())?: with no IDAT chunk the
\* loop body never runs and the call is Ok; otherwise the decompressor
\* decides.
GInflate ==
    /\ AtStage({"inflate_idats"})
    /\ \/ StageDone
       \/ (\E i \in 1..Len(gchunks) : gchunks[i] = "IDAT") /\ StageEnds("Err")
    /\ UNCHANGED <<entry, gchunks>>
    /\ UNCHANGED <<vvars, dvars, fvars, rvars, pvars, ivars, hvars, xvars, svars, qvars>>

\* lines_slices / lines_num: scanline_width panics on a palette image and
\* expect panics on a filter tag above 4.
GLines ==
    /\ AtStage({"lines_slices", "lines_num"})
    /\ (StageDone \/ StageEnds("panic"))
    /\ UNCHANGED <<entry, gchunks>>
    /\ UNCHANGED <<vvars, dvars, fvars, rvars, pvars, ivars, hvars, xvars, svars, qvars>>

\* unfilter / unfilter_bis: an assertion or an index out of bounds panics.
GUnfilter ==
    /\ AtStage({"unfilter", "unfilter_bis"})
    /\ (StageDone \/ StageEnds("panic"))
    /\ UNCHANGED <<entry, gchunks>>
    /\ UNCHANGED <<vvars, dvars, fvars, rvars, pvars, ivars, hvars, xvars, svars, qvars>>

\* decode_verbose: println!("{:?}", img.get(77, 21)) and the five that
\* follow; the slice index panics on a small image.
GGet ==
    /\ AtStage({"get"})
    /\ (StageDone \/ StageEnds("panic"))
    /\ UNCHANGED <<entry, gchunks>>
    /\ UNCHANGED <<vvars, dvars, fvars, rvars, pvars, ivars, hvars, xvars, svars, qvars>>

\* decode_verbose: chunks_valid.iter().for_each(.. parse_chunk_data ..);
\* an error is printed and the loop goes on.
GParseChunkData ==
    /\ AtStage({"parse_chunk_data"})
    /\ StageDone
    /\ UNCHANGED <<entry, gchunks>>
    /\ UNCHANGED <<vvars, dvars, fvars, rvars, pvars, ivars, hvars, xvars, svars, qvars>>

\* The end of the body: Ok(png_img), or Ok(()) in decode_verbose.
GReturn ==
    /\ goutcome = "running"
    /\ gpc > Len(Stages(entry))
    /\ goutcome' = ReturnValue(entry)
    /\ UNCHANGED <<entry, gpc, gchunks, glog>>
    /\ UNCHANGED <<vvars, dvars, fvars, rvars, pvars, ivars, hvars, xvars, svars, qvars>>

InitGate == GInit /\ VIdle /\ DIdle /\ FIdle /\ RIdle /\ PIdle /\ IIdle /\ HIdle /\ XIdle /\ SIdle /\ QIdle

NextGate ==
    \/ GParseChunks
    \/ GValidate
    \/ GParseIhdr
    \/ GInflate
    \/ GLines
    \/ GUnfilter
    \/ GGet
    \/ GParseChunkData
    \/ GReturn

SpecGate == InitGate /\ [][NextGate]_vars


(***************************************************************************)
(* png.rs / chunk_data.rs / color.rs: the data path of decode_no_check and *)
(* decode_no_check_bis.  The IHDR fields and the inflated bytes are        *)
(* inputs; the lines are split and reconstructed as the code does it.      *)
(***************************************************************************)
\* The largest IHDR width and height, and the longest inflated buffer.
MaxWidth == 2
MaxHeight == 2
MaxInflated == 5

\* The bytes the inflated buffer is made of: the filter tags None and Up,
\* a tag that is no filter, and a byte that wraps when added to itself.
InflatedBytes == {0, 2, 5, 200}

\* The IHDR bytes tried: colour-type codes (1 is no colour type) and depths.
ColorCodes == {0, 1, 3, 4}
BitDepths == {8, 16}

\* impl TryFrom<u8> for ColorType
ColorTypeTryFrom(value) ==
    CASE value = 0 -> "Gray"
      [] value = 2 -> "RGB"
      [] value = 3 -> "PLTE"
      [] value = 4 -> "GrayAlpha"
      [] value = 6 -> "RGBA"
      [] OTHER -> "Err"

\* The match on the colour type of scanline_width, unfilter and unfilter_bis;
\* 0 stands for the arm that panics.
Channels(color_type) ==
    CASE color_type = "Gray" -> 1
      [] color_type = "GrayAlpha" -> 2
      [] color_type = "RGB" -> 3
      [] color_type = "RGBA" -> 4
      [] OTHER -> 0

\* std::cmp::max(1, bit_depth / 8)
BytesPerChannel(bit_depth) ==
    IF bit_depth \div 8 > 1 THEN bit_depth \div 8 ELSE 1

\* A u32 is kept as its two 16-bit halves <<high, low>>: the values of the
\* u32 arithmetic go up to 2^32 - 1.  ToU32 is for a number below 2^31,
\* and AsUsize turns the halves of a number below 2^31 into that number.
Half == 256 * 256
ToU32(n) == <<n \div Half, n % Half>>
AsUsize(v) == v[1] * Half + v[2]

\* a * k in u32 for a factor k below 2^15: the product modulo 2^32, and
\* whether the product is 2^32 or more.
u32_mul(a, k) ==
    LET low == a[2] * k
        high == a[1] * k + low \div Half
    IN [overflow |-> high >= Half, value |-> <<high % Half, low % Half>>]

\* a + b in u32.
u32_add(a, b) ==
    LET low == a[2] + b[2]
        high == a[1] + b[1] + low \div Half
    IN [overflow |-> high >= Half, value |-> <<high % Half, low % Half>>]

\* 1 + a in u32.
u32_inc(a) ==
    LET low == a[2] + 1
        high == a[1] + low \div Half
    IN [overflow |-> high >= Half, value |-> <<high % Half, low % Half>>]

\* IHDRData::scanline_width: (1 + self.width * nb_chanels * bytes_per_channel)
\* in u32, then as usize.  An operation that overflows panics in a build with
\* overflow checks and wraps in a build without them.
scanline_width(checks, ihdr) ==
    IF Channels(ihdr.color_type) = 0 THEN [panic |-> TRUE, value |-> <<0, 0>>]
    ELSE LET by_chanels == u32_mul(ToU32(ihdr.width), Channels(ihdr.color_type))
             by_bytes == u32_mul(by_chanels.value, BytesPerChannel(ihdr.bit_depth))
             plus_one == u32_inc(by_bytes.value)
         IN IF checks /\ (by_chanels.overflow \/ by_bytes.overflow
                          \/ plus_one.overflow)
            THEN [panic |-> TRUE, value |-> <<0, 0>>]
            ELSE [panic |-> FALSE, value |-> plus_one.value]

\* Some line of the nb_scanlines lines starts with a byte that is no filter.
BadFilterTag(data, w) ==
    \E i \in 0..((Len(data) \div w) - 1) : FilterTryFrom(data[i * w + 1]) = "Err"

\* pub fn lines_slices(data, scanline_width) -> Vec<(Filter, &[u8])>
lines_slices(data, w) ==
    IF w = 0 \/ BadFilterTag(data, w) THEN [panic |-> TRUE, lines |-> <<>>]
    ELSE [panic |-> FALSE,
          lines |-> [i \in 1..(Len(data) \div w) |->
                       [filter |-> FilterTryFrom(data[(i - 1) * w + 1]),
                        line |-> SubSeq(data, (i - 1) * w + 2, i * w)]]]

\* A lines_num that leaves out the lines whose first byte is no filter.
IsFilter(l) == l.filter # "Err"
lines_num_SkipsBad(data, w) ==
    IF w = 0 THEN [panic |-> TRUE, lines |-> <<>>]
    ELSE [panic |-> FALSE,
          lines |-> SelectSeq([i \in 1..(Len(data) \div w) |->
                                 [filter |-> FilterTryFrom(data[(i - 1) * w + 1]),
                                  start |-> (i - 1) * w + 1]],
                              IsFilter)]

\* pub fn lines_num(data, scanline_width) -> Vec<(Filter, usize)>
lines_num(data, w) ==
    IF w = 0 \/ BadFilterTag(data, w) THEN [panic |-> TRUE, lines |-> <<>>]
    ELSE [panic |-> FALSE,
          lines |-> [i \in 1..(Len(data) \div w) |->
                       [filter |-> FilterTryFrom(data[(i - 1) * w + 1]),
                        start |-> (i - 1) * w + 1]]]

\* The bpp computed by png::unfilter and png::unfilter_bis.
BytesPerPixel(ihdr) == BytesPerChannel(ihdr.bit_depth) * Channels(ihdr.color_type)

\* A raster whose width and height are exchanged.
MakePng_SwapsWidthHeight(ihdr, data) ==
    [width |-> ihdr.height, height |-> ihdr.width, color_type |-> ihdr.color_type,
     bytes_per_pixel |-> BytesPerChannel(ihdr.bit_depth) * Channels(ihdr.color_type),
     data |-> data]

\* Png { width, height, color_type: ihdr.color_type, bytes_per_pixel: bpp, data }
MakePng(ihdr, data) ==
    [width |-> ihdr.width, height |-> ihdr.height, color_type |-> ihdr.color_type,
     bytes_per_pixel |-> BytesPerPixel(ihdr), data |-> data]

\* pub fn unfilter(ihdr, scanlines) -> Png
png_unfilter(checks, ihdr, lines) ==
    IF Channels(ihdr.color_type) = 0 THEN [panic |-> TRUE, png |-> NoPng]
    ELSE LET r == filter_unfilter(checks, ihdr.width, ihdr.height,
                                  BytesPerPixel(ihdr), lines)
         IN IF r.panic THEN [panic |-> TRUE, png |-> NoPng]
            ELSE [panic |-> FALSE, png |-> MakePng(ihdr, r.data)]

\* pub fn unfilter_bis(ihdr, scanlines, inflated) -> Png
png_unfilter_bis(ihdr, lines, inflated) ==
    IF Channels(ihdr.color_type) = 0 THEN [panic |-> TRUE, png |-> NoPng]
    ELSE LET r == filter_unfilter_bis(ihdr.width, ihdr.height,
                                      BytesPerPixel(ihdr), lines, inflated)
         IN IF r.panic THEN [panic |-> TRUE, png |-> NoPng]
            ELSE [panic |-> FALSE, png |-> MakePng(ihdr, r.data)]

DEntries == {"decode_no_check", "decode_no_check_bis"}

DInit ==
    /\ dentry \in DEntries
    /\ dpc = "parse_chunks"
    /\ overflow_checks \in BOOLEAN
    /\ ihdr_data = NoIHDR
    /\ inflated_idats = <<>>
    /\ scanlines = <<>>
    /\ png_img = NoPng
    /\ doutcome = "running"

DGoto(pc) == dpc' = pc /\ doutcome' = doutcome
DEnds(o) == dpc' = dpc /\ doutcome' = o

\* match parse_chunks(input) { Ok(..) => .., Err(e) => Err(..) }
DParseChunks ==
    /\ doutcome = "running" /\ dpc = "parse_chunks"
    /\ (DGoto("parse_ihdr_data") \/ DEnds("Err"))
    /\ UNCHANGED <<dentry, overflow_checks, ihdr_data, inflated_idats,
                   scanlines, png_img>>
    /\ UNCHANGED <<vvars, gvars, fvars, rvars, pvars, ivars, hvars, xvars, svars, qvars>>

\* chunk_data::parse_ihdr_data(ihdr_chunk.data).unwrap().1: the fields are
\* read from the data of the first chunk; a colour-type byte that is no
\* colour type, or data that is too short, makes unwrap panic.
DParseIhdr ==
    /\ doutcome = "running" /\ dpc = "parse_ihdr_data"
    /\ \/ \E w \in 1..MaxWidth, h \in 1..MaxHeight, d \in BitDepths, c \in ColorCodes :
            IF ColorTypeTryFrom(c) = "Err"
            THEN DEnds("panic") /\ ihdr_data' = ihdr_data
            ELSE /\ DGoto("inflate_idats")
                 /\ ihdr_data' = [width |-> w, height |-> h, bit_depth |-> d,
                                  color_type |-> ColorTypeTryFrom(c)]
       \/ DEnds("panic") /\ ihdr_data' = ihdr_data
    /\ UNCHANGED <<dentry, overflow_checks, inflated_idats, scanlines, png_img>>
    /\ UNCHANGED <<vvars, gvars, fvars, rvars, pvars, ivars, hvars, xvars, svars, qvars>>

\* chunk_data::inflate_idats(idats.as_slice())?: the bytes the decompressor
\* produced, whatever they are, or an Err.
DInflate ==
    /\ doutcome = "running" /\ dpc = "inflate_idats"
    /\ \/ \E n \in 0..MaxInflated : \E bytes \in [1..n -> InflatedBytes] :
            inflated_idats' = bytes /\ DGoto("lines")
       \/ inflated_idats' = inflated_idats /\ DEnds("Err")
    /\ UNCHANGED <<dentry, overflow_checks, ihdr_data, scanlines, png_img>>
    /\ UNCHANGED <<vvars, gvars, fvars, rvars, pvars, ivars, hvars, xvars, svars, qvars>>

\* lines_slices(&inflated_idats, ihdr_data.scanline_width()), or lines_num
\* in decode_no_check_bis.
DLines ==
    /\ doutcome = "running" /\ dpc = "lines"
    /\ LET w == scanline_width(overflow_checks, ihdr_data) IN
       IF w.panic THEN DEnds("panic") /\ scanlines' = scanlines
       ELSE LET r == IF dentry = "decode_no_check"
                     THEN lines_slices(inflated_idats, AsUsize(w.value))
                     ELSE lines_num(inflated_idats, AsUsize(w.value))
            IN IF r.panic THEN DEnds("panic") /\ scanlines' = scanlines
               ELSE DGoto("unfilter") /\ scanlines' = r.lines
    /\ UNCHANGED <<dentry, overflow_checks, ihdr_data, inflated_idats, png_img>>
    /\ UNCHANGED <<vvars, gvars, fvars, rvars, pvars, ivars, hvars, xvars, svars, qvars>>

\* let png_img = unfilter(&ihdr_data, scanlines); Ok(png_img), or
\* unfilter_bis(&ihdr_data, scanlines, &mut inflated_idats).
DUnfilter ==
    /\ doutcome = "running" /\ dpc = "unfilter"
    /\ LET r == IF dentry = "decode_no_check"
                THEN png_unfilter(overflow_checks, ihdr_data, scanlines)
                ELSE png_unfilter_bis(ihdr_data, scanlines, inflated_idats)
       IN IF r.panic THEN DEnds("panic") /\ png_img' = png_img
          ELSE DEnds("Ok(Png)") /\ png_img' = r.png
    /\ UNCHANGED <<dentry, overflow_checks, ihdr_data, inflated_idats, scanlines>>
    /\ UNCHANGED <<vvars, gvars, fvars, rvars, pvars, ivars, hvars, xvars, svars, qvars>>

InitDecode == DInit /\ VIdle /\ GIdle /\ FIdle /\ RIdle /\ PIdle /\ IIdle /\ HIdle /\ XIdle /\ SIdle /\ QIdle

NextDecode ==
    \/ DParseChunks
    \/ DParseIhdr
    \/ DInflate
    \/ DLines
    \/ DUnfilter

SpecDecode == InitDecode /\ [][NextDecode]_vars

(***************************************************************************)
(* The PNG filters of section 4.5 of the specification, which the decoder  *)
(* inverts: a raster is filtered row by row into the stream of the         *)
(* inflated IDAT bytes, and the stream then goes through lines_slices (or  *)
(* lines_num) and unfilter (or unfilter_bis) as above.  The crate has no   *)
(* encoder; the filters are the reference ones.                            *)
(***************************************************************************)
\* The longest row of the raster, in bytes.
MaxLineBytes == 2

\* The bytes the raster is made of, and the filter-type bytes of the rows.
RasterBytes == {0, 255}
FilterTags == 0..4

\* The Paeth predictor of the specification.
PngPaeth(left, up, up_left) ==
    LET p == left + up - up_left
        pa == IF p - left < 0 THEN left - p ELSE p - left
        pb == IF p - up < 0 THEN up - p ELSE p - up
        pc == IF p - up_left < 0 THEN up_left - p ELSE p - up_left
    IN IF pa <= pb /\ pa <= pc THEN left
       ELSE IF pb <= pc THEN up
       ELSE up_left

\* The value a filter predicts for a byte from its reference values.
PngPredictor(tg, left, up, up_left) ==
    CASE tg = 0 -> 0
      [] tg = 1 -> left
      [] tg = 2 -> up
      [] tg = 3 -> (up + left) \div 2
      [] tg = 4 -> PngPaeth(left, up, up_left)

\* A row filtered with the filter of tag tg; prev is the row above, or <<>>
\* for row 0.
PngFilterRow(tg, bpp, row, prev) ==
    [c \in 1..Len(row) |->
        LET left == IF c > bpp THEN row[c - bpp] ELSE 0
            up == IF prev # <<>> THEN prev[c] ELSE 0
            up_left == IF prev # <<>> /\ c > bpp THEN prev[c - bpp] ELSE 0
        IN (row[c] - PngPredictor(tg, left, up, up_left) + 256) % 256]

\* The stream of the rows from row k on: each row is its filter-type byte
\* and its filtered bytes.
RECURSIVE PngFilterStream(_, _, _, _)
PngFilterStream(tgs, bpp, rows, k) ==
    IF k > Len(rows) THEN <<>>
    ELSE <<tgs[k]>>
         \o PngFilterRow(tgs[k], bpp, rows[k], IF k = 1 THEN <<>> ELSE rows[k - 1])
         \o PngFilterStream(tgs, bpp, rows, k + 1)

\* The rows of a raster, one after the other.
RECURSIVE Flatten(_)
Flatten(rows) == IF rows = <<>> THEN <<>> ELSE Head(rows) \o Flatten(Tail(rows))

\* The reconstruction of section 4.5 of one row from its filtered bytes,
\* from byte column c on; acc holds the bytes reconstructed so far and prev
\* the reconstructed row above, or <<>> for row 0.
RECURSIVE PngReconstructRow(_, _, _, _, _, _)
PngReconstructRow(tg, bpp, input, prev, c, acc) ==
    IF c > Len(input) THEN acc
    ELSE LET left == IF c > bpp THEN acc[c - bpp] ELSE 0
             up == IF prev # <<>> THEN prev[c] ELSE 0
             up_left == IF prev # <<>> /\ c > bpp THEN prev[c - bpp] ELSE 0
         IN PngReconstructRow(tg, bpp, input, prev, c + 1,
                Append(acc, (input[c] + PngPredictor(tg, left, up, up_left)) % 256))

\* The reconstruction of section 4.5 of a stream of h rows of 1 + len
\* bytes, from row r on: the flat raster.
RECURSIVE PngReconstruct(_, _, _, _, _, _)
PngReconstruct(stream, len, h, bpp, r, prev) ==
    IF r > h THEN <<>>
    ELSE LET start == (r - 1) * (len + 1)
             row == PngReconstructRow(stream[start + 1], bpp,
                                      SubSeq(stream, start + 2, start + 1 + len),
                                      prev, 1, <<>>)
         IN row \o PngReconstruct(stream, len, h, bpp, r + 1, row)

\* The IHDR of the rasters: Gray and GrayAlpha, which give 1, 2 or 4 bytes
\* per pixel with the depths 8 and 16.
RasterColorTypes == {"Gray", "GrayAlpha"}

RInit ==
    /\ dentry \in DEntries
    /\ dpc = "filter"
    /\ overflow_checks \in BOOLEAN
    /\ \E w \in 1..MaxWidth, h \in 1..MaxHeight, d \in BitDepths,
          c \in RasterColorTypes :
          /\ ihdr_data = [width |-> w, height |-> h, bit_depth |-> d,
                          color_type |-> c]
          /\ w * BytesPerPixel(ihdr_data) <= MaxLineBytes
          /\ original \in [1..h -> [1..(w * BytesPerPixel(ihdr_data)) -> RasterBytes]]
          /\ filters \in [1..h -> FilterTags]
    /\ inflated_idats = <<>>
    /\ scanlines = <<>>
    /\ png_img = NoPng
    /\ doutcome = "running"

\* The inflated bytes are the raster, filtered.
RFilter ==
    /\ doutcome = "running" /\ dpc = "filter"
    /\ inflated_idats' =
          PngFilterStream(filters, BytesPerPixel(ihdr_data), original, 1)
    /\ DGoto("lines")
    /\ UNCHANGED <<dentry, overflow_checks, ihdr_data, scanlines, png_img>>
    /\ UNCHANGED <<vvars, gvars, fvars, rvars, pvars, ivars, hvars, xvars, svars, qvars>>

InitFilter == RInit /\ VIdle /\ GIdle /\ FIdle /\ PIdle /\ IIdle /\ HIdle /\ XIdle /\ SIdle /\ QIdle

NextFilter ==
    \/ RFilter
    \/ DLines
    \/ DUnfilter

SpecFilter == InitFilter /\ [][NextFilter]_vars

(***************************************************************************)
(* filter.rs: one call of paeth_predictor on three bytes.                  *)
(***************************************************************************)
\* The bytes the arguments are drawn from.
PaethBytes == {0, 1, 2, 3, 4, 5, 6, 100, 127, 128, 129, 200, 253, 254, 255}

PInit ==
    /\ paeth_args \in [1..3 -> PaethBytes]
    /\ paeth_ret = -1

\* paeth_predictor(left, up, up_left)
PCall ==
    /\ paeth_ret = -1
    /\ paeth_ret' = paeth_predictor(paeth_args[1], paeth_args[2], paeth_args[3])
    /\ UNCHANGED paeth_args
    /\ UNCHANGED <<vvars, gvars, dvars, fvars, rvars, ivars, hvars, xvars, svars, qvars>>

InitPaeth == PInit /\ VIdle /\ GIdle /\ DIdle /\ FIdle /\ RIdle /\ IIdle /\ HIdle /\ XIdle /\ SIdle /\ QIdle

NextPaeth == PCall

SpecPaeth == InitPaeth /\ [][NextPaeth]_vars

(***************************************************************************)
(* chunk_data.rs: inflate_idats.  The decompressor is the one of            *)
(* miniz_oxide, which the crate calls through inflate::core::decompress;   *)
(* it is stood for by a decompressor with the same interface for a small   *)
(* stream format: the header byte 8, then literal bytes, the byte 1        *)
(* followed by a count byte n (n copies of the byte written last, an       *)
(* error when nothing was written yet), and the byte 0 that ends the       *)
(* stream.  It keeps its state between invocations, consumes input and     *)
(* writes output for as long as it can, and reports why it stopped.        *)
(***************************************************************************)
\* The longest compressed stream and the most IDAT chunks it is split into.
MaxStream == 5
MaxIdats == 2

\* The bytes the compressed streams are made of.
CompressedBytes == {0, 1, 8, 12}

\* One invocation from input index i and output index o on: the status,
\* the input consumed, the end of the output, the new state and buffer.
\* "Exhausted" is the end of the input without the has-more-input flag,
\* which the library reports as one of two statuses (see below).
RECURSIVE DecompressRun(_, _, _, _, _, _)
DecompressRun(d, input, i, buf, o, more) ==
    LET Stop(st) == [status |-> st, i |-> i, o |-> o, decomp |-> d, buf |-> buf]
        Byte(d2) == DecompressRun(d2, input, i + 1, buf, o, more)
    IN
    IF d.phase = "done" THEN Stop("Done")
    ELSE IF d.phase = "failed" THEN Stop("Failed")
    ELSE IF d.pending > 0
    THEN IF o >= Len(buf) THEN Stop("HasMoreOutput")
         ELSE DecompressRun([d EXCEPT !.pending = @ - 1], input, i,
                            [buf EXCEPT ![o + 1] = d.last], o + 1, more)
    ELSE IF i >= Len(input)
    THEN Stop(IF more THEN "NeedsMoreInput" ELSE "Exhausted")
    ELSE LET b == input[i + 1] IN
         CASE d.phase = "header" ->
                Byte([d EXCEPT !.phase = IF b = 8 THEN "body" ELSE "failed"])
           [] d.phase = "body" ->
                IF b = 0 THEN Byte([d EXCEPT !.phase = "done"])
                ELSE IF b = 1 THEN Byte([d EXCEPT !.phase = "count"])
                ELSE Byte([d EXCEPT !.pending = 1, !.last = b])
           [] d.phase = "count" ->
                IF d.last = -1 THEN Byte([d EXCEPT !.phase = "failed"])
                ELSE Byte([d EXCEPT !.phase = "body", !.pending = b])

\* inflate::core::decompress(&mut decomp, input, &mut cursor, flags), the
\* cursor being at out_pos in buf:
\* (status, in_consumed, out_consumed) and what it did to decomp and buf.
decompress(d, input, buf, o, more) ==
    LET r == DecompressRun(d, input, 0, buf, o, more) IN
    [status |-> r.status, in_consumed |-> r.i, out_consumed |-> r.o - o,
     decomp |-> r.decomp, buf |-> r.buf]

\* The statuses the library can report for a result of DecompressRun: at the
\* end of the input without the has-more-input flag, NeedsMoreInput or
\* FailedCannotMakeProgress, depending on its version.
StatusesOf(r) ==
    IF r.status = "Exhausted" THEN {"NeedsMoreInput", "FailedCannotMakeProgress"}
    ELSE {r.status}

\* The length fields of chunks that Chunk::parse made of the data ds.
LengthsOf(ds) == [k \in 1..Len(ds) |-> ToU32(Len(ds[k]))]

\* let compressed_length: u32 = idats.iter().map(|c| c.length).sum();
\* the sum of the length fields in u32, and whether an addition overflowed.
RECURSIVE compressed_length(_)
compressed_length(ls) ==
    IF ls = <<>> THEN [overflow |-> FALSE, value |-> ToU32(0)]
    ELSE LET front == compressed_length(SubSeq(ls, 1, Len(ls) - 1))
             sum == u32_add(front.value, ls[Len(ls)])
         IN [overflow |-> front.overflow \/ sum.overflow, value |-> sum.value]

\* vec![0; 2 * compressed_length as usize]
initial_ret(ls) == Zeros(2 * AsUsize(compressed_length(ls).value))

\* Flags that never carry TINFL_FLAG_HAS_MORE_INPUT.
has_more_input_Never(id, nb_chunk) == FALSE

\* Flags that always carry TINFL_FLAG_HAS_MORE_INPUT.
has_more_input_Always(id, nb_chunk) == TRUE

\* chunk_flags carries TINFL_FLAG_HAS_MORE_INPUT for every chunk but the
\* last (id counts from 1 here).
has_more_input(id, nb_chunk) == id # nb_chunk

\* An arm that leaves every chunk, the last one too, with break.
needs_more_input_arm_AlwaysBreaks(id, nb_chunk) == "break"

\* The arm of TINFLStatus::NeedsMoreInput: an Err on the last chunk, break
\* on the others.
needs_more_input_arm(id, nb_chunk) == IF id = nb_chunk THEN "Err" ELSE "break"

\* A HasMoreOutput arm that replaces the buffer by a longer one of zeros.
extended_ret_Clears(buf, pos) == Zeros(Len(buf) + pos)

\* ret.extend(&vec![0; out_pos]), out_pos being the updated one.
extended_ret(buf, pos) == buf \o Zeros(pos)

\* A Done arm that goes on with the next chunk when there is one.
done_arm_BreaksBeforeLast(id, nb_chunk) == IF id = nb_chunk THEN "return" ELSE "break"

\* The arm of TINFLStatus::Done: return, on whatever chunk.
done_arm(id, nb_chunk) == "return"

\* A Done arm that returns the buffer with its unused end.
truncated_ret_KeepsEnd(buf, pos) == buf

\* ret.truncate(out_pos), out_pos being the updated one.
truncated_ret(buf, pos) == SubSeq(buf, 1, pos)

\* The for loop of inflate_idats from chunk id and positions ip and op on:
\* what the call returns.
RECURSIVE InflateLoop(_, _, _, _, _, _)
InflateLoop(ds, id, ip, op, buf, d) ==
    IF id > Len(ds) THEN [result |-> "Ok", ret |-> buf]
    ELSE LET r == decompress(d, SubSeq(ds[id], ip + 1, Len(ds[id])), buf, op,
                             has_more_input(id, Len(ds)))
             ip2 == ip + r.in_consumed
             op2 == op + r.out_consumed
         IN CASE r.status = "Done" /\ done_arm(id, Len(ds)) = "return" ->
                   [result |-> "Ok", ret |-> truncated_ret(r.buf, op2)]
              [] r.status = "Done" ->
                   InflateLoop(ds, id + 1, 0, op2, r.buf, r.decomp)
              [] r.status = "HasMoreOutput" ->
                   InflateLoop(ds, id, ip2, op2, extended_ret(r.buf, op2), r.decomp)
              [] r.status = "NeedsMoreInput" /\
                 needs_more_input_arm(id, Len(ds)) = "break" ->
                   InflateLoop(ds, id + 1, 0, op2, r.buf, r.decomp)
              [] OTHER -> [result |-> "Err", ret |-> <<>>]

\* pub fn inflate_idats(idats) -> Result<Vec<u8>, String>
inflate_idats(ds) ==
    InflateLoop(ds, 1, 0, 0, initial_ret(LengthsOf(ds)), NewDecompressor)

\* The streams, and a stream cut into n payloads at the positions cuts.
Streams == UNION { [1..m -> CompressedBytes] : m \in 0..MaxStream }

SplitAt(stream, n, cuts) ==
    [k \in 1..n |->
        SubSeq(stream, (IF k = 1 THEN 0 ELSE cuts[k - 1]) + 1,
               IF k = n THEN Len(stream) ELSE cuts[k])]

\* The most invocations of the decompressor that are followed: a call that
\* returns makes fewer of them for the streams above.
MaxCalls == 8

\* The first bytes of the data of a chunk of 2^31 bytes, and the length
\* field of such a chunk.  The data of such a chunk is followed as far as
\* these bytes go.
LongHeads == { <<8, 12>>, <<8, 12, 0>>, <<8, 0>>, <<12>>, <<8>> }
LongLength == <<Half \div 2, 0>>

\* The data of chunk k is in idats[k] as a whole.
Whole(k) == idat_lengths[k] = ToU32(Len(idats[k]))

\* The chunks as Chunk::parse made them: the length field of a chunk is the
\* length of its data.  They are a stream cut into up to MaxIdats chunks, or
\* two chunks of 2^31 bytes each.
IInit ==
    /\ \/ /\ \E stream \in Streams : \E n \in 0..MaxIdats :
               /\ n = 0 => stream = <<>>
               /\ \E cuts \in [1..(n - 1) -> 0..Len(stream)] :
                     /\ \A k \in 1..(n - 2) : cuts[k] <= cuts[k + 1]
                     /\ idats = SplitAt(stream, n, cuts)
          /\ idat_lengths = LengthsOf(idats)
       \/ /\ \E head \in LongHeads : idats = <<head, <<>> >>
          /\ idat_lengths = <<LongLength, LongLength>>
    /\ chunk_id = 0
    /\ in_pos = 0
    /\ out_pos = 0
    /\ inflate_ret = <<>>
    /\ decomp = NewDecompressor
    /\ ipc = "alloc"
    /\ iresult = "running"
    /\ icalls = <<>>
    /\ iturns = 0

\* let compressed_length: u32 = ...sum(); let mut ret = vec![0; 2 * ...];
\* the sum panics on an overflow in a build with overflow checks.
IAlloc ==
    /\ ipc = "alloc"
    /\ IF overflow_checks /\ compressed_length(idat_lengths).overflow
       THEN /\ ipc' = "returned"
            /\ iresult' = "panic"
            /\ inflate_ret' = inflate_ret
       ELSE /\ ipc' = "for"
            /\ iresult' = iresult
            /\ inflate_ret' = initial_ret(idat_lengths)
    /\ UNCHANGED <<idats, idat_lengths, chunk_id, in_pos, out_pos, decomp, icalls,
                   iturns>>
    /\ UNCHANGED <<vvars, gvars, dvars, fvars, rvars, pvars, hvars, xvars, svars, qvars>>

\* for (id, chunk) in idats.iter().enumerate(): the next chunk.
IFor ==
    /\ ipc = "for" /\ chunk_id < Len(idats)
    /\ chunk_id' = chunk_id + 1
    /\ in_pos' = 0
    /\ ipc' = "loop"
    /\ UNCHANGED <<idats, idat_lengths, out_pos, inflate_ret, decomp, iresult,
                   icalls, iturns>>
    /\ UNCHANGED <<vvars, gvars, dvars, fvars, rvars, pvars, hvars, xvars, svars, qvars>>

\* The for loop is over: Ok(ret).
IForEnd ==
    /\ ipc = "for" /\ chunk_id >= Len(idats)
    /\ ipc' = "returned"
    /\ iresult' = "Ok"
    /\ UNCHANGED <<idats, idat_lengths, chunk_id, in_pos, out_pos, inflate_ret,
                   decomp, icalls, iturns>>
    /\ UNCHANGED <<vvars, gvars, dvars, fvars, rvars, pvars, hvars, xvars, svars, qvars>>

\* The invocation of the body of the loop, in the current state.
Invocation ==
    decompress(decomp, SubSeq(idats[chunk_id], in_pos + 1, Len(idats[chunk_id])),
               inflate_ret, out_pos, has_more_input(chunk_id, Len(idats)))

\* The invocation is followed: it is not beyond MaxCalls, and it did not
\* come to the end of the first bytes of a chunk of 2^31 bytes.
Followed(r) ==
    /\ Len(icalls) < MaxCalls
    /\ Whole(chunk_id) \/ r.status \notin {"NeedsMoreInput", "Exhausted"}

\* The entry of the log for the invocation r, matched as the status st.
LoggedAs(r, st) ==
    [id |-> chunk_id,
     more |-> has_more_input(chunk_id, Len(idats)),
     input |-> SubSeq(idats[chunk_id], in_pos + 1, Len(idats[chunk_id])),
     at |-> out_pos,
     len |-> Len(inflate_ret),
     before |-> SubSeq(inflate_ret, 1, out_pos),
     state |-> decomp,
     produced |-> SubSeq(r.buf, 1, out_pos + r.out_consumed),
     left |-> r.decomp,
     in_consumed |-> r.in_consumed,
     out_consumed |-> r.out_consumed,
     status |-> st]

\* in_pos += in_consumed; out_pos += out_consumed; the invocation is logged,
\* unless it repeats the one before exactly, arguments and results: the
\* loop is then back where it was a turn before.
Invoked(r, st) ==
    /\ Followed(r)
    /\ in_pos' = in_pos + r.in_consumed
    /\ out_pos' = out_pos + r.out_consumed
    /\ decomp' = r.decomp
    /\ icalls' = IF icalls # <<>> /\ icalls[Len(icalls)] = LoggedAs(r, st)
                 THEN icalls
                 ELSE Append(icalls, LoggedAs(r, st))
    /\ iturns' = 1 - iturns
    /\ UNCHANGED <<idats, idat_lengths, chunk_id>>
    /\ UNCHANGED <<vvars, gvars, dvars, fvars, rvars, pvars, hvars, xvars, svars, qvars>>

\* TINFLStatus::Done => { ret.truncate(out_pos); return Ok(ret); }
IDone ==
    /\ ipc = "loop"
    /\ LET r == Invocation IN
       /\ "Done" \in StatusesOf(r)
       /\ Invoked(r, "Done")
       /\ IF done_arm(chunk_id, Len(idats)) = "return"
          THEN /\ inflate_ret' = truncated_ret(r.buf, out_pos + r.out_consumed)
               /\ ipc' = "returned"
               /\ iresult' = "Ok"
          ELSE /\ inflate_ret' = r.buf
               /\ ipc' = "for"
               /\ iresult' = iresult

\* TINFLStatus::HasMoreOutput => { ret.extend(&vec![0; out_pos]); }
IHasMoreOutput ==
    /\ ipc = "loop"
    /\ LET r == Invocation IN
       /\ "HasMoreOutput" \in StatusesOf(r)
       /\ Invoked(r, "HasMoreOutput")
       /\ inflate_ret' = extended_ret(r.buf, out_pos + r.out_consumed)
    /\ UNCHANGED <<ipc, iresult>>

\* TINFLStatus::NeedsMoreInput => Err on the last chunk, break otherwise.
INeedsMoreInput ==
    /\ ipc = "loop"
    /\ LET r == Invocation IN
       /\ "NeedsMoreInput" \in StatusesOf(r)
       /\ Invoked(r, "NeedsMoreInput")
       /\ inflate_ret' = r.buf
    /\ IF needs_more_input_arm(chunk_id, Len(idats)) = "Err"
       THEN ipc' = "returned" /\ iresult' = "Err"
       ELSE ipc' = "for" /\ iresult' = iresult

\* _ => return Err(format!("{:?}", status))
IOtherStatus ==
    /\ ipc = "loop"
    /\ LET r == Invocation IN
       /\ \E st \in StatusesOf(r) :
             /\ st \in {"Failed", "FailedCannotMakeProgress"}
             /\ Invoked(r, st)
       /\ inflate_ret' = r.buf
    /\ ipc' = "returned"
    /\ iresult' = "Err"

InitInflate ==
    /\ IInit /\ VIdle /\ GIdle /\ FIdle /\ RIdle /\ PIdle /\ HIdle /\ XIdle /\ SIdle /\ QIdle
    /\ dentry = "none" /\ dpc = "idle" /\ overflow_checks \in BOOLEAN
    /\ ihdr_data = NoIHDR /\ inflated_idats = <<>> /\ scanlines = <<>>
    /\ png_img = NoPng /\ doutcome = "idle"

NextInflate ==
    \/ IAlloc
    \/ IFor
    \/ IForEnd
    \/ IDone
    \/ IHasMoreOutput
    \/ INeedsMoreInput
    \/ IOtherStatus

SpecInflate == InitInflate /\ [][NextInflate]_vars

\* The call keeps running: the loops of inflate_idats are sequential code,
\* so a step that can be taken is taken.
SpecInflateLive == SpecInflate /\ WF_vars(NextInflate)




(***************************************************************************)
(* png.rs: parse_chunks, and chunk.rs: Chunk::parse.  The input is a       *)
(* sequence of bytes; a nom parser takes the remaining input and yields    *)
(* the rest and a value, or an error.  many1 applies Chunk::parse until it *)
(* fails: a failure on the first application is the error of many1, a      *)
(* later failure ends the repetition with the chunks collected so far.     *)
(***************************************************************************)
\* The most complete chunks in an input, and the longest chunk data.
MaxFrameChunks == 2
MaxData == 1

SIGNATURE == <<137, 80, 78, 71, 13, 10, 26, 10>>

\* The chunk names the inputs are made of: IHDR, IDAT, IEND, and IDAt,
\* which is no chunk type.
FrameNames ==
    { <<73, 72, 68, 82>>, <<73, 68, 65, 84>>, <<73, 69, 78, 68>>,
      <<73, 68, 65, 116>> }

\* What the inputs start with: the signature, a signature cut short (no
\* byte at all, or all bytes but the last), and eight bytes that differ from
\* the signature in the first or in the last byte.
FrameSignatures ==
    { SIGNATURE, <<>>, SubSeq(SIGNATURE, 1, 7),
      <<138, 80, 78, 71, 13, 10, 26, 10>>, <<137, 80, 78, 71, 13, 10, 26, 0>> }

\* The bytes the chunk data is made of, and the crc of every chunk.
FrameDataBytes == {7}
FrameCrc == <<1, 2, 3, 4>>

\* A ChunkType as Chunk::parse makes it: the variant, and for Unknown the
\* four characters it carries (as their codes: `as char` keeps the code).
KnownType(variant) == [variant |-> variant, name |-> <<>>]
UnknownType(name) == [variant |-> "Unknown", name |-> name]

\* impl From<[char; 4]> for ChunkType, on the codes of the name.
ChunkTypeFrom(name) ==
    CASE name = <<73, 72, 68, 82>> -> KnownType("IHDR")
      [] name = <<80, 76, 84, 69>> -> KnownType("PLTE")
      [] name = <<73, 68, 65, 84>> -> KnownType("IDAT")
      [] name = <<73, 69, 78, 68>> -> KnownType("IEND")
      [] name = <<116, 82, 78, 83>> -> KnownType("tRNS")
      [] name = <<103, 65, 77, 65>> -> KnownType("gAMA")
      [] name = <<99, 72, 82, 77>> -> KnownType("cHRM")
      [] name = <<115, 82, 71, 66>> -> KnownType("sRGB")
      [] name = <<105, 67, 67, 80>> -> KnownType("iCCP")
      [] name = <<116, 69, 88, 116>> -> KnownType("tEXt")
      [] name = <<122, 84, 88, 116>> -> KnownType("zTXt")
      [] name = <<105, 84, 88, 116>> -> KnownType("iTXt")
      [] name = <<98, 75, 71, 68>> -> KnownType("bKGD")
      [] name = <<112, 72, 89, 115>> -> KnownType("pHYs")
      [] name = <<115, 66, 73, 84>> -> KnownType("sBIT")
      [] name = <<115, 80, 76, 84>> -> KnownType("sPLT")
      [] name = <<104, 73, 83, 84>> -> KnownType("hIST")
      [] name = <<116, 73, 77, 69>> -> KnownType("tIME")
      [] OTHER -> UnknownType(name)

\* A be_u32 that takes the first byte as the least significant one.
be_u32_value_LittleEndian(b) == ((b[4] * 256 + b[3]) * 256 + b[2]) * 256 + b[1]

\* nom::number::complete::be_u32 on four bytes.  The length bytes of the
\* inputs are small, so the value stays in the range of the integers here.
be_u32_value(b) == ((b[1] * 256 + b[2]) * 256 + b[3]) * 256 + b[4]

\* The four bytes of a length.
be_u32_bytes(n) ==
    << n \div 16777216, (n \div 65536) % 256, (n \div 256) % 256, n % 256 >>

NoChunk == [length |-> 0, chunk_type |-> KnownType("none"), data |-> <<>>, crc |-> <<>>]
ParseErr(i) == [ok |-> FALSE, rest |-> i, chunk |-> NoChunk]

Drop(i, n) == SubSeq(i, n + 1, Len(i))

\* Chunk::parse: be_u32, take(4), take(length), take(4); each take fails
\* when fewer bytes remain than it is asked for.
Chunk_parse(i) ==
    IF Len(i) < 4 THEN ParseErr(i)
    ELSE IF Len(i) < 8 THEN ParseErr(i)
    ELSE LET length == be_u32_value(SubSeq(i, 1, 4)) IN
         IF Len(i) - 8 < length THEN ParseErr(i)
         ELSE IF Len(i) - 8 - length < 4 THEN ParseErr(i)
         ELSE [ok |-> TRUE,
               rest |-> Drop(i, 12 + length),
               chunk |-> [length |-> length,
                          chunk_type |-> ChunkTypeFrom(SubSeq(i, 5, 8)),
                          data |-> SubSeq(i, 9, 8 + length),
                          crc |-> SubSeq(i, 9 + length, 12 + length)]]

\* The bytes of a complete chunk with the given name and data.
Encode(c) == be_u32_bytes(Len(c.data)) \o c.name \o c.data \o FrameCrc

RECURSIVE EncodeAll(_)
EncodeAll(cs) == IF cs = <<>> THEN <<>> ELSE Encode(Head(cs)) \o EncodeAll(Tail(cs))

\* The complete chunks the inputs are made of.
FrameChunks ==
    UNION { { [name |-> nm, data |-> d] : nm \in FrameNames, d \in [1..n -> FrameDataBytes] } :
            n \in 0..MaxData }

\* What may follow the complete chunks: nothing, or a chunk cut short
\* anywhere in its length, its name, its data or its crc.
FrameTails ==
    {<<>>} \cup
    UNION { { SubSeq(Encode(c), 1, n) : n \in 1..(Len(Encode(c)) - 1) } :
            c \in FrameChunks }

FInit ==
    /\ \E k \in 0..MaxFrameChunks : \E cs \in [1..k -> FrameChunks] :
       \E t \in FrameTails : \E sig \in FrameSignatures :
          /\ fsent = cs
          /\ ftail = t
          /\ finput = sig \o EncodeAll(cs) \o t
    /\ fpc = "tag"
    /\ frest = finput
    /\ facc = <<>>
    /\ fresult = "running"

\* A tag that also matches an input that is a prefix of the tag.
tag_MatchesPrefix(t, i) ==
    IF Len(i) >= Len(t) THEN SubSeq(i, 1, Len(t)) = t
    ELSE i = SubSeq(t, 1, Len(i))

\* nom::bytes::complete::tag: the input starts with all the bytes of the
\* tag; an input shorter than the tag is an error.
tag(t, i) == Len(i) >= Len(t) /\ SubSeq(i, 1, Len(t)) = t

\* let (input, _) = tag(SIGNATURE)(input)?;
FTag ==
    /\ fpc = "tag"
    /\ IF tag(SIGNATURE, frest)
       THEN fpc' = "many1_first" /\ frest' = Drop(frest, 8) /\ fresult' = fresult
       ELSE fpc' = "done" /\ frest' = frest /\ fresult' = "Err"
    /\ UNCHANGED <<finput, fsent, ftail, facc>>
    /\ UNCHANGED <<vvars, gvars, dvars, rvars, pvars, ivars, hvars, xvars, svars, qvars>>

\* many1(Chunk::parse): the first application; its error is many1's error.
FMany1First ==
    /\ fpc = "many1_first"
    /\ LET r == Chunk_parse(frest) IN
       IF r.ok
       THEN /\ facc' = <<r.chunk>>
            /\ frest' = r.rest
            /\ fpc' = "many1_loop"
            /\ fresult' = fresult
       ELSE /\ facc' = facc
            /\ frest' = frest
            /\ fpc' = "done"
            /\ fresult' = "Err"
    /\ UNCHANGED <<finput, fsent, ftail>>
    /\ UNCHANGED <<vvars, gvars, dvars, rvars, pvars, ivars, hvars, xvars, svars, qvars>>

\* many1(Chunk::parse): a later application; its error ends the loop with
\* Ok((rest, acc)).
FMany1Loop ==
    /\ fpc = "many1_loop"
    /\ LET r == Chunk_parse(frest) IN
       IF r.ok
       THEN /\ facc' = Append(facc, r.chunk)
            /\ frest' = r.rest
            /\ fpc' = fpc
            /\ fresult' = fresult
       ELSE /\ facc' = facc
            /\ frest' = frest
            /\ fpc' = "done"
            /\ fresult' = "Ok"
    /\ UNCHANGED <<finput, fsent, ftail>>
    /\ UNCHANGED <<vvars, gvars, dvars, rvars, pvars, ivars, hvars, xvars, svars, qvars>>

InitFrame == FInit /\ VIdle /\ GIdle /\ DIdle /\ RIdle /\ PIdle /\ IIdle /\ HIdle /\ XIdle /\ SIdle /\ QIdle

NextFrame ==
    \/ FTag
    \/ FMany1First
    \/ FMany1Loop

SpecFrame == InitFrame /\ [][NextFrame]_vars

(***************************************************************************)
(* chunk_data.rs: parse_ihdr_data on the data of the first chunk, the       *)
(* unwrap of its result in the decode entry points (png.rs), and            *)
(* scanline_width on the IHDRData.  The widths and heights tried are below  *)
(* 2^31.                                                                    *)
(***************************************************************************)
\* The bytes of the IHDR data tried: widths (0, 1, 10, 65536, 2^30 - 1, 2^30,
\* (2^32 - 1) / 3 and the next one, 2^31 - 1), heights, bit depths, every
\* colour-type byte, and the three method bytes.
IhdrWidths ==
    { <<0, 0, 0, 0>>, <<0, 0, 0, 1>>, <<0, 0, 0, 10>>, <<0, 1, 0, 0>>,
      <<63, 255, 255, 255>>, <<64, 0, 0, 0>>, <<85, 85, 85, 85>>,
      <<85, 85, 85, 86>>, <<127, 255, 255, 255>> }
IhdrHeights == { <<0, 0, 0, 1>> }
IhdrBitDepths == {1, 8, 16, 255}
IhdrColorCodes == 0..255
IhdrMethods == { <<0, 0, 0>> }
IhdrLengths == {0, 3, 4, 8, 9, 10, 12, 13}

\* nom::number::complete::be_u8 and be_u32: Err on an input that is too short.
be_u8(i) ==
    IF Len(i) < 1 THEN [ok |-> FALSE, rest |-> i, value |-> 0]
    ELSE [ok |-> TRUE, rest |-> Drop(i, 1), value |-> i[1]]

be_u32(i) ==
    IF Len(i) < 4 THEN [ok |-> FALSE, rest |-> i, value |-> 0]
    ELSE [ok |-> TRUE, rest |-> Drop(i, 4), value |-> be_u32_value(SubSeq(i, 1, 4))]

\* map_res(be_u8, ColorType::try_from)
color_type_parser(i) ==
    LET b == be_u8(i) IN
    IF ~b.ok \/ ColorTypeTryFrom(b.value) = "Err"
    THEN [ok |-> FALSE, rest |-> i, value |-> "Err"]
    ELSE [ok |-> TRUE, rest |-> b.rest, value |-> ColorTypeTryFrom(b.value)]

\* pub fn parse_ihdr_data(input: &[u8]) -> IResult<&[u8], IHDRData>
parse_ihdr_data(input) ==
    LET width == be_u32(input)
        height == be_u32(width.rest)
        bit_depth == be_u8(height.rest)
        color_type == color_type_parser(bit_depth.rest)
        compression_method == be_u8(color_type.rest)
        filter_method == be_u8(compression_method.rest)
        interlace_method == be_u8(filter_method.rest)
    IN IF ~width.ok \/ ~height.ok \/ ~bit_depth.ok \/ ~color_type.ok
          \/ ~compression_method.ok \/ ~filter_method.ok \/ ~interlace_method.ok
       THEN IhdrErr
       ELSE [ok |-> TRUE, rest |-> interlace_method.rest,
             ihdr |-> [width |-> width.value, height |-> height.value,
                       bit_depth |-> bit_depth.value,
                       color_type |-> color_type.value,
                       compression_method |-> compression_method.value,
                       filter_method |-> filter_method.value,
                       interlace_method |-> interlace_method.value]]

HInit ==
    /\ \E w \in IhdrWidths, h \in IhdrHeights, d \in IhdrBitDepths,
          c \in IhdrColorCodes, m \in IhdrMethods, n \in IhdrLengths :
          ihdr_chunk_data = SubSeq(w \o h \o <<d, c>> \o m, 1, n)
    /\ ihdr_parsed = IhdrErr
    /\ stride = NoStride
    /\ hpc = "parse_ihdr_data"
    /\ houtcome = "running"

\* chunk_data::parse_ihdr_data(ihdr_chunk.data)
HParseIhdr ==
    /\ hpc = "parse_ihdr_data"
    /\ ihdr_parsed' = parse_ihdr_data(ihdr_chunk_data)
    /\ hpc' = "unwrap"
    /\ UNCHANGED <<ihdr_chunk_data, stride, houtcome>>
    /\ UNCHANGED <<vvars, gvars, dvars, fvars, rvars, pvars, ivars, xvars, svars, qvars>>

\* .unwrap().1: a panic on an Err, the IHDRData otherwise.
HUnwrap ==
    /\ hpc = "unwrap"
    /\ IF ihdr_parsed.ok
       THEN hpc' = "scanline_width" /\ houtcome' = houtcome
       ELSE hpc' = "done" /\ houtcome' = "panic"
    /\ UNCHANGED <<ihdr_chunk_data, ihdr_parsed, stride>>
    /\ UNCHANGED <<vvars, gvars, dvars, fvars, rvars, pvars, ivars, xvars, svars, qvars>>

\* ihdr_data.scanline_width()
HScanlineWidth ==
    /\ hpc = "scanline_width"
    /\ stride' = scanline_width(overflow_checks, ihdr_parsed.ihdr)
    /\ hpc' = "done"
    /\ houtcome' = IF scanline_width(overflow_checks, ihdr_parsed.ihdr).panic
                   THEN "panic" ELSE "Ok"
    /\ UNCHANGED <<ihdr_chunk_data, ihdr_parsed>>
    /\ UNCHANGED <<vvars, gvars, dvars, fvars, rvars, pvars, ivars, xvars, svars, qvars>>

InitIhdr ==
    /\ HInit /\ VIdle /\ GIdle /\ FIdle /\ RIdle /\ PIdle /\ IIdle /\ XIdle /\ SIdle /\ QIdle
    /\ dentry = "none" /\ dpc = "idle" /\ overflow_checks \in BOOLEAN
    /\ ihdr_data = NoIHDR /\ inflated_idats = <<>> /\ scanlines = <<>>
    /\ png_img = NoPng /\ doutcome = "idle"

NextIhdr ==
    \/ HParseIhdr
    \/ HUnwrap
    \/ HScanlineWidth

SpecIhdr == InitIhdr /\ [][NextIhdr]_vars

(***************************************************************************)
(* png.rs: one call of Png::get on a raster as unfilter returns it: data   *)
(* has width * height * bytes_per_pixel bytes.  The numbers are small, so  *)
(* the usize arithmetic is exact.                                          *)
(***************************************************************************)
NoGet == [panic |-> FALSE, slice |-> <<>>]

\* pub fn get(&self, x: usize, y: usize) -> &[u8]; the slice panics when
\* its end is beyond the data.
Png_get(png, x, y) ==
    LET line_width == png.bytes_per_pixel * png.width
        start == y * line_width + x * png.bytes_per_pixel
        end == start + png.bytes_per_pixel
    IN IF end > Len(png.data) THEN [panic |-> TRUE, slice |-> <<>>]
       ELSE [panic |-> FALSE, slice |-> SubSeq(png.data, start + 1, end)]

\* The rasters: every byte of data is its own index, or every byte is 7.
XInit ==
    /\ \E w \in 1..MaxWidth, h \in 1..MaxHeight, d \in BitDepths,
          c \in {"Gray", "GrayAlpha", "RGB", "RGBA"}, same \in BOOLEAN :
          LET ihdr == [width |-> w, height |-> h, bit_depth |-> d,
                       color_type |-> c]
          IN png_img = MakePng(ihdr, [i \in 1..(w * h * BytesPerPixel(ihdr)) |->
                                         IF same THEN 7 ELSE i - 1])
    /\ get_args = <<>>
    /\ get_ret = NoGet

\* img.get(x, y)
XGet ==
    /\ get_args = <<>>
    /\ \E x \in 0..(MaxWidth + 1), y \in 0..(MaxHeight + 1) :
          /\ get_args' = <<x, y>>
          /\ get_ret' = Png_get(png_img, x, y)
    /\ UNCHANGED <<vvars, gvars, dvars, fvars, rvars, pvars, ivars, hvars, svars, qvars>>

InitGet ==
    /\ XInit /\ VIdle /\ GIdle /\ FIdle /\ RIdle /\ PIdle /\ IIdle /\ HIdle /\ SIdle /\ QIdle
    /\ dentry = "none" /\ dpc = "idle" /\ overflow_checks = FALSE
    /\ ihdr_data = NoIHDR /\ inflated_idats = <<>> /\ scanlines = <<>>
    /\ doutcome = "idle"

NextGet == XGet

SpecGet == InitGet /\ [][NextGet]_vars

(***************************************************************************)
(* filter.rs: one call of unfilter, unfilter_bis or unfilter_buffer on the *)
(* lines of an inflated buffer of height lines of 1 + bpp * width bytes,   *)
(* each with a valid filter-type byte.  The lines are made as the entry    *)
(* points and the benchmarks make them, with lines_slices or lines_num.    *)
(***************************************************************************)
\* The inflated bytes of lines with the filter-type bytes tags.
StreamOf(tags, rows) ==
    Flatten([k \in 1..Len(rows) |-> <<tags[k]>> \o rows[k]])

SInit ==
    /\ \E w \in 0..MaxWidth, h \in 0..MaxHeight, b \in 1..MaxLineBytes :
          /\ w * b <= MaxLineBytes
          /\ \E tgs \in [1..h -> FilterTags],
                rows \in [1..h -> [1..(w * b) -> RasterBytes]] :
                strat_args = [width |-> w, height |-> h, bpp |-> b,
                              inflated |-> StreamOf(tgs, rows)]
    /\ strat_called = "none"
    /\ strat_ret = [panic |-> FALSE, data |-> <<>>]

\* What each function returns for the arguments a.
RunUnfilter(checks, a) ==
    LET r == filter_unfilter(checks, a.width, a.height, a.bpp,
                             lines_slices(a.inflated, 1 + a.bpp * a.width).lines)
    IN [panic |-> r.panic, data |-> r.data]

RunUnfilterBis(a) ==
    LET r == filter_unfilter_bis(a.width, a.height, a.bpp,
                                 lines_num(a.inflated, 1 + a.bpp * a.width).lines,
                                 a.inflated)
    IN [panic |-> r.panic, data |-> r.data]

RunUnfilterBuffer(a) ==
    LET r == filter_unfilter_buffer(a.width, a.height, a.bpp,
                                    lines_slices(a.inflated, 1 + a.bpp * a.width).lines)
    IN [panic |-> r.panic, data |-> r.data]

\* filter::unfilter(width, height, bpp, scanlines)
SUnfilter ==
    /\ strat_called = "none"
    /\ strat_called' = "unfilter"
    /\ strat_ret' = RunUnfilter(overflow_checks, strat_args)
    /\ UNCHANGED strat_args
    /\ UNCHANGED <<vvars, gvars, dvars, fvars, rvars, pvars, ivars, hvars, xvars, qvars>>

\* filter::unfilter_bis(width, height, bpp, scanlines, &mut inflated)
SUnfilterBis ==
    /\ strat_called = "none"
    /\ strat_called' = "unfilter_bis"
    /\ strat_ret' = RunUnfilterBis(strat_args)
    /\ UNCHANGED strat_args
    /\ UNCHANGED <<vvars, gvars, dvars, fvars, rvars, pvars, ivars, hvars, xvars, qvars>>

\* filter::unfilter_buffer(width, height, bpp, scanlines)
SUnfilterBuffer ==
    /\ strat_called = "none"
    /\ strat_called' = "unfilter_buffer"
    /\ strat_ret' = RunUnfilterBuffer(strat_args)
    /\ UNCHANGED strat_args
    /\ UNCHANGED <<vvars, gvars, dvars, fvars, rvars, pvars, ivars, hvars, xvars, qvars>>

InitStrategies ==
    /\ SInit /\ VIdle /\ GIdle /\ FIdle /\ RIdle /\ PIdle /\ IIdle /\ HIdle /\ XIdle /\ QIdle
    /\ dentry = "none" /\ dpc = "idle" /\ overflow_checks \in BOOLEAN
    /\ ihdr_data = NoIHDR /\ inflated_idats = <<>> /\ scanlines = <<>>
    /\ png_img = NoPng /\ doutcome = "idle"

NextStrategies ==
    \/ SUnfilter
    \/ SUnfilterBis
    \/ SUnfilterBuffer

SpecStrategies == InitStrategies /\ [][NextStrategies]_vars

(***************************************************************************)
(* filter.rs: unfilter, unfilter_bis and unfilter_buffer again, one        *)
(* iteration of a loop at a time.  The fold takes the lines in order; a    *)
(* decoder copies what it copies as a block (copy_from_slice) and then     *)
(* computes one byte of the line in each iteration.  Next to each buffer   *)
(* the model keeps what every byte of it holds: nothing yet, a filter-type *)
(* byte, the filtered byte of a line and column, or the reconstructed one. *)
(* Each iteration records where its operands came from.                    *)
(***************************************************************************)
\* The most lines of a call, and the width and bpp of the calls.
MaxSeqRows == 2
SeqShapes == { <<1, 1>>, <<2, 1>>, <<1, 2>> }

Strategies == {"unfilter", "unfilter_bis", "unfilter_buffer"}

\* What a byte of a buffer holds; lines and columns count from 1.
HoldsZero == <<"zero", 0, 0>>
HoldsTag(r) == <<"tag", r, 0>>
HoldsRaw(r, c) == <<"raw", r, c>>
HoldsRecon(r, c) == <<"recon", r, c>>

\* len, the bytes of a line, and the start in data of the line the fold is
\* at (line_start, data_start) and its start in inflated (start).
SeqLen == seq_args.bpp * seq_args.width
SeqLineStart == (seq_row - 1) * SeqLen
SeqStart == (seq_row - 1) * (SeqLen + 1) + 1

QInit ==
    /\ \E shape \in SeqShapes, h \in 1..MaxSeqRows :
          LET len == shape[1] * shape[2] IN
          \E tgs \in [1..h -> FilterTags], rows \in [1..h -> [1..len -> RasterBytes]] :
             /\ seq_args = [width |-> shape[1], height |-> h, bpp |-> shape[2],
                            inflated |-> StreamOf(tgs, rows)]
             /\ seq_data = Zeros(shape[2] * shape[1] * h)
             /\ seq_writes = Zeros(shape[2] * shape[1] * h)
             /\ seq_holds =
                   [data |-> [j \in 1..(len * h) |-> HoldsZero],
                    inflated |-> [j \in 1..((len + 1) * h) |->
                                    IF (j - 1) % (len + 1) = 0
                                    THEN HoldsTag((j - 1) \div (len + 1) + 1)
                                    ELSE HoldsRaw((j - 1) \div (len + 1) + 1,
                                                  (j - 1) % (len + 1))],
                    previous |-> [j \in 1..len |-> HoldsZero]]
             /\ seq_previous = Zeros(len)
    /\ seq_inflated = seq_args.inflated
    /\ seq_strategy \in Strategies
    /\ seq_pc = "fold"
    /\ seq_row = 0
    /\ seq_col = 0
    /\ seq_routine = "none"
    /\ seq_reads = {}

\* The decoder that runs on a line with the filter-type byte tg: the arm of
\* the match in the fold, and the test of line_start == 0 (data_start == 0)
\* with which decode_up, decode_average and decode_paeth begin.
Routine(tg, line_start) ==
    CASE FilterTryFrom(tg) = "None" -> "none"
      [] FilterTryFrom(tg) = "Sub" -> "sub"
      [] FilterTryFrom(tg) = "Up" -> IF line_start = 0 THEN "none" ELSE "up"
      [] FilterTryFrom(tg) = "Average" -> IF line_start = 0 THEN "sub" ELSE "average"
      [] FilterTryFrom(tg) = "Paeth" -> IF line_start = 0 THEN "sub" ELSE "paeth"

\* A byte of a buffer; at counts from 0 as in the source.
Loc(buf, at) == [buf |-> buf, at |-> at]

Val(l) ==
    CASE l.buf = "data" -> seq_data[l.at + 1]
      [] l.buf = "inflated" -> seq_inflated[l.at + 1]
      [] l.buf = "previous" -> seq_previous[l.at + 1]

Held(l) ==
    CASE l.buf = "data" -> seq_holds.data[l.at + 1]
      [] l.buf = "inflated" -> seq_holds.inflated[l.at + 1]
      [] l.buf = "previous" -> seq_holds.previous[l.at + 1]

\* The filtered byte iteration i reads: line[i] (p), inflated[start + i] or
\* current[i].
SelfOf(start, i) == Loc("inflated", start + i)

\* The neighbours iteration i of a decoder reads, each with its role.
NeighboursOf(strategy, routine, bpp, len, line_start, start, i) ==
    LET previous_line_start == line_start - len
        N(role, l) == [role |-> role, loc |-> l]
    IN
    CASE routine = "sub" ->
           { N("left", Loc("data", line_start + i - bpp)) }
      [] routine = "up" ->
           { N("up", Loc("data", previous_line_start + i)) }
      [] routine = "average" ->
           { N("up", Loc("data", previous_line_start + i)) }
           \cup (IF i < bpp THEN {}
                 ELSE { N("left", Loc("data", line_start - bpp + i)) })
      [] routine = "paeth" /\ strategy = "unfilter" ->
           { N("up", Loc("data", previous_line_start + i)) }
           \cup (IF i < bpp THEN {}
                 ELSE { N("up_left", Loc("data", previous_line_start - bpp + i)),
                        N("left", Loc("data", line_start - bpp + i)) })
      [] routine = "paeth" /\ strategy = "unfilter_bis" ->
           { N("up", Loc("previous", i)) }
           \cup (IF i < bpp THEN {}
                 ELSE { N("up_left", Loc("previous", i - bpp)),
                        N("left", Loc("inflated", start + i - bpp)) })
      [] routine = "paeth" /\ strategy = "unfilter_buffer" ->
           { N("up", Loc("previous", i)) }
           \cup (IF i < bpp THEN {}
                 ELSE { N("up_left", Loc("previous", i - bpp)),
                        N("left", Loc("data", line_start - bpp + i)) })

\* An iteration that always writes into data.
WriteOf_AlwaysData(strategy, routine, line_start, start, i) ==
    Loc("data", line_start + i)

\* The byte iteration i writes: data[line_start + i], or current[i] in
\* decode_paeth_bis.
WriteOf(strategy, routine, line_start, start, i) ==
    IF routine = "paeth" /\ strategy = "unfilter_bis"
    THEN Loc("inflated", start + i)
    ELSE Loc("data", line_start + i)

\* The value iteration i adds to the filtered byte, from its neighbours.
AddedBy(routine, ns) ==
    LET Of(role) == IF \E n \in ns : n.role = role
                    THEN Val((CHOOSE n \in ns : n.role = role).loc)
                    ELSE 0
    IN CASE routine = "sub" -> Of("left")
         [] routine = "up" -> Of("up")
         [] routine = "average" -> (Of("up") + Of("left")) \div 2
         [] routine = "paeth" ->
              IF \E n \in ns : n.role = "left"
              THEN paeth_predictor(Of("left"), Of("up"), Of("up_left"))
              ELSE Of("up")

\* buf[at..at + Len(src)].copy_from_slice(src), in the buffers b.
CopyTo(b, buf, at, src) ==
    CASE buf = "data" -> [b EXCEPT !.data = CopyInto(@, at, src)]
      [] buf = "inflated" -> [b EXCEPT !.inflated = CopyInto(@, at, src)]
      [] buf = "previous" -> [b EXCEPT !.previous = CopyInto(@, at, src)]

Buffers == [data |-> seq_data, inflated |-> seq_inflated, previous |-> seq_previous]

\* The writes counted: n bytes of data from at on were written once more.
Written(at, n) ==
    [j \in 1..Len(seq_writes) |->
        IF j > at /\ j <= at + n THEN seq_writes[j] + 1 ELSE seq_writes[j]]

\* Bytes 1..n of the line the fold is at, reconstructed.
ReconOf(r, n) == [c \in 1..n |-> HoldsRecon(r, c)]

\* let previous_line_start_bpp = previous_line_start - bpp; in decode_paeth,
\* between its two loops: it panics on the second line where overflow is
\* checked.
PaethTraps ==
    /\ seq_strategy = "unfilter" /\ seq_routine = "paeth"
    /\ seq_col = seq_args.bpp
    /\ overflow_checks
    /\ SeqLineStart - SeqLen < seq_args.bpp

\* The fold takes the next line: the decoder is chosen and makes its block
\* copies: the whole line (decode_none), its first bpp bytes (decode_sub),
\* or the line above into the scratch line (decode_paeth_bis,
\* decode_paeth_buf).
QLine ==
    /\ seq_pc = "fold" /\ seq_row < seq_args.height
    /\ seq_row' = seq_row + 1
    /\ LET r == seq_row + 1
           len == SeqLen
           line_start == (r - 1) * len
           start == (r - 1) * (len + 1) + 1
           routine == Routine(seq_inflated[start], line_start)
           line(n) == SubSeq(seq_inflated, start + 1, start + n)
           CopyLine(n) ==
               /\ seq_data' = CopyInto(seq_data, line_start, line(n))
               /\ seq_holds' = [seq_holds EXCEPT
                                  !.data = CopyInto(@, line_start, ReconOf(r, n))]
               /\ seq_writes' = Written(line_start, n)
               /\ seq_col' = n
               /\ seq_reads' = { [col |-> c, role |-> "self",
                                  holds |-> seq_holds.inflated[start + c]] :
                                   c \in 1..n }
               /\ UNCHANGED <<seq_previous, seq_inflated>>
       IN
       /\ seq_routine' = routine
       /\ CASE routine = "none" -> CopyLine(len)
            [] routine = "sub" -> CopyLine(seq_args.bpp)
            [] routine = "paeth" /\ seq_strategy # "unfilter" ->
                 /\ seq_previous' = SubSeq(seq_data, line_start - len + 1, line_start)
                 /\ seq_holds' = [seq_holds EXCEPT
                                    !.previous = SubSeq(seq_holds.data,
                                                        line_start - len + 1,
                                                        line_start)]
                 /\ seq_col' = 0
                 /\ seq_reads' = {}
                 /\ UNCHANGED <<seq_data, seq_inflated, seq_writes>>
            [] OTHER ->
                 /\ seq_col' = 0
                 /\ seq_reads' = {}
                 /\ UNCHANGED <<seq_data, seq_inflated, seq_previous, seq_holds,
                                seq_writes>>
    /\ seq_pc' = "loop"
    /\ UNCHANGED <<seq_args, seq_strategy>>
    /\ UNCHANGED <<vvars, gvars, dvars, fvars, rvars, pvars, ivars, hvars, xvars, svars>>

\* One iteration of the loop of the decoder, at index i = seq_col.
QByte ==
    /\ seq_pc = "loop" /\ seq_col < SeqLen /\ ~PaethTraps
    /\ LET i == seq_col
           ns == NeighboursOf(seq_strategy, seq_routine, seq_args.bpp, SeqLen,
                              SeqLineStart, SeqStart, i)
           self == SelfOf(SeqStart, i)
           value == wrapping_add(Val(self), AddedBy(seq_routine, ns))
           w == WriteOf(seq_strategy, seq_routine, SeqLineStart, SeqStart, i)
           b == CopyTo(Buffers, w.buf, w.at, <<value>>)
       IN
       /\ seq_reads' = { [col |-> i + 1, role |-> n.role, holds |-> Held(n.loc)] :
                           n \in ns }
                       \cup { [col |-> i + 1, role |-> "self", holds |-> Held(self)] }
       /\ seq_data' = b.data
       /\ seq_inflated' = b.inflated
       /\ seq_previous' = b.previous
       /\ seq_holds' = CopyTo(seq_holds, w.buf, w.at, <<HoldsRecon(seq_row, i + 1)>>)
       /\ seq_writes' = IF w.buf = "data" THEN Written(w.at, 1) ELSE seq_writes
    /\ seq_col' = seq_col + 1
    /\ UNCHANGED <<seq_args, seq_strategy, seq_pc, seq_row, seq_routine>>
    /\ UNCHANGED <<vvars, gvars, dvars, fvars, rvars, pvars, ivars, hvars, xvars, svars>>

\* The decoder is through the line and returns the start of the next one;
\* decode_paeth_bis copies current into data first.
QLineEnd ==
    /\ seq_pc = "loop" /\ seq_col = SeqLen /\ ~PaethTraps
    /\ IF seq_routine = "paeth" /\ seq_strategy = "unfilter_bis"
       THEN /\ seq_data' = CopyInto(seq_data, SeqLineStart,
                                    SubSeq(seq_inflated, SeqStart + 1,
                                           SeqStart + SeqLen))
            /\ seq_holds' = [seq_holds EXCEPT
                               !.data = CopyInto(@, SeqLineStart,
                                                 SubSeq(seq_holds.inflated,
                                                        SeqStart + 1,
                                                        SeqStart + SeqLen))]
            /\ seq_writes' = Written(SeqLineStart, SeqLen)
       ELSE UNCHANGED <<seq_data, seq_holds, seq_writes>>
    /\ seq_pc' = "fold"
    /\ seq_reads' = {}
    /\ UNCHANGED <<seq_args, seq_strategy, seq_row, seq_col, seq_routine,
                   seq_inflated, seq_previous>>
    /\ UNCHANGED <<vvars, gvars, dvars, fvars, rvars, pvars, ivars, hvars, xvars, svars>>

\* decode_paeth panics between its loops.
QPanic ==
    /\ seq_pc = "loop" /\ PaethTraps
    /\ seq_pc' = "panic"
    /\ UNCHANGED <<seq_args, seq_strategy, seq_row, seq_col, seq_routine,
                   seq_data, seq_inflated, seq_previous, seq_holds, seq_writes,
                   seq_reads>>
    /\ UNCHANGED <<vvars, gvars, dvars, fvars, rvars, pvars, ivars, hvars, xvars, svars>>

\* The fold is over: data is returned.
QReturn ==
    /\ seq_pc = "fold" /\ seq_row = seq_args.height
    /\ seq_pc' = "returned"
    /\ UNCHANGED <<seq_args, seq_strategy, seq_row, seq_col, seq_routine,
                   seq_data, seq_inflated, seq_previous, seq_holds, seq_writes,
                   seq_reads>>
    /\ UNCHANGED <<vvars, gvars, dvars, fvars, rvars, pvars, ivars, hvars, xvars, svars>>

InitSequence ==
    /\ QInit /\ VIdle /\ GIdle /\ FIdle /\ RIdle /\ PIdle /\ IIdle /\ HIdle /\ XIdle /\ SIdle
    /\ dentry = "none" /\ dpc = "idle" /\ overflow_checks \in BOOLEAN
    /\ ihdr_data = NoIHDR /\ inflated_idats = <<>> /\ scanlines = <<>>
    /\ png_img = NoPng /\ doutcome = "idle"

NextSequence ==
    \/ QLine
    \/ QByte
    \/ QLineEnd
    \/ QPanic
    \/ QReturn

SpecSequence == InitSequence /\ [][NextSequence]_vars

(***************************************************************************)
(* Properties of the chunk-ordering fold (checked under Spec).             *)
(***************************************************************************)
\* The fold ended in an Err.
VRejected == vresult \notin {"folding", "Ok"}

\* The positions of the chunks of type t.
Positions(s, t) == {i \in 1..Len(s) : s[i] = t}

\* Two IDAT chunks with a chunk of another type between them.
IdatRunBroken(s) ==
    \E i, j, k \in 1..Len(s) :
        i < j /\ j < k /\ s[i] = "IDAT" /\ s[j] # "IDAT" /\ s[k] = "IDAT"

\* C1: a chunk sequence in which two IDAT chunks are separated by a chunk of
\* another type is rejected: accepted sequences hold one contiguous IDAT run.
C1_IdatContiguous == IdatRunBroken(chunks) => VRejected

\* C1 witness: IHDR, IDAT, tEXt, IDAT was rejected at the second IDAT.
C1_Witness ==
    /\ chunks = <<"IHDR", "IDAT", "tEXt", "IDAT">>
    /\ vresult = "Unauthorized chunk"

C3_EndsWithIEND == vresult = "Ok" => chunks[Len(chunks)] = "IEND"

\* C4: once IEND is accepted the authorized set is empty and stays empty:
\* a sequence with any chunk after an IEND is rejected.
C4_NothingAfterIEND ==
    /\ "IEND" \in present => authorized = {}
    /\ (\E i \in 1..(Len(chunks) - 1) : chunks[i] = "IEND") => VRejected

\* C4 witness: a tEXt chunk after IHDR, IDAT, IEND was rejected.
C4_Witness ==
    /\ chunks = <<"IHDR", "IDAT", "IEND", "tEXt">>
    /\ VRejected
    /\ authorized = {}

\* C5: PLTE occurs at most once and never after an IDAT in an accepted
\* sequence: a second PLTE, or a PLTE after the first IDAT, is rejected.
C5_PlteOnceBeforeIdat ==
    (\/ Cardinality(Positions(chunks, "PLTE")) >= 2
     \/ \E i, j \in 1..Len(chunks) :
            i < j /\ chunks[i] = "IDAT" /\ chunks[j] = "PLTE")
    => VRejected

\* C5 witness: the second PLTE of IHDR, PLTE, PLTE was rejected.
C5_Witness == chunks = <<"IHDR", "PLTE", "PLTE">> /\ VRejected

\* C6: a sequence that holds an Unknown chunk at any position is rejected.
C6_UnknownRejected == Positions(chunks, "Unknown") # {} => VRejected

\* C6 witness: an Unknown chunk right after IHDR and a bKGD was rejected.
C6_Witness == chunks = <<"IHDR", "bKGD", "Unknown">> /\ VRejected

\* IHDR, then IDAT chunks, then (after at least one IDAT) possibly IEND:
\* a prefix of a sequence IHDR IDAT+ IEND.
BasicPrefix(s) ==
    /\ Len(s) >= 1 => s[1] = "IHDR"
    /\ \A i \in 2..Len(s) :
          \/ s[i] = "IDAT"
          \/ s[i] = "IEND" /\ i = Len(s) /\ i >= 3

\* C7: IHDR, one or more consecutive IDAT, IEND is accepted (no chunk of it
\* is rejected), and an accepting fold returns the sequence it was given.
C7_BasicAccepted ==
    /\ BasicPrefix(chunks) => ~VRejected
    /\ vresult = "Ok" => ret = chunks

\* C7 witness: IHDR, IDAT, IDAT, IEND was accepted and returned.
C7_Witness ==
    /\ vresult = "Ok"
    /\ chunks = <<"IHDR", "IDAT", "IDAT", "IEND">>
    /\ ret = chunks

(***************************************************************************)
(* Properties of the decode entry points (checked under SpecGate).         *)
(***************************************************************************)
Ran(stage) == \E i \in 1..Len(glog) : glog[i] = stage

\* The stages that decode the IHDR, inflate or reconstruct.
DataStages ==
    { "parse_ihdr_data", "inflate_idats", "lines_slices", "lines_num",
      "unfilter", "unfilter_bis" }

RanDataStage == \E i \in 1..Len(glog) : glog[i] \in DataStages

\* The validator ran right after framing and before every data stage.
ValidatedFirst ==
    /\ Len(glog) >= 2
    /\ glog[1] = "parse_chunks"
    /\ glog[2] = "validate_chunk_constraints"

C9_NoPartialImage ==
    doutcome = "Ok(Png)" =>
        /\ Len(inflated_idats) =
              ihdr_data.height * (1 + BytesPerPixel(ihdr_data) * ihdr_data.width)
        /\ Len(scanlines) = ihdr_data.height

(***************************************************************************)
(* Properties of the framing (checked under SpecFrame).                    *)
(***************************************************************************)
\* C10: parse_chunks fails whenever a chunk of the input, the first or a
\* later one, is incomplete.
C10_IncompleteChunkFails ==
    (fpc = "done" /\ ftail # <<>>) => fresult = "Err"

\* C11: parse_chunks fails and produces no chunks for every input whose
\* first 8 bytes are not the signature, inputs shorter than 8 bytes
\* included: no chunk is ever parsed from such an input, and the call ends
\* in Err.
C11_BadSignatureFails ==
    (Len(finput) < 8 \/ SubSeq(finput, 1, 8) # SIGNATURE) =>
        /\ facc = <<>>
        /\ fpc \in {"tag", "done"}
        /\ fpc = "done" => fresult = "Err"

\* C11 witness: parse_chunks returned Err on an input shorter than 8
\* bytes.
C11_Witness ==
    /\ fpc = "done"
    /\ fresult = "Err"
    /\ finput = SubSeq(SIGNATURE, 1, 7)

(***************************************************************************)
(* Properties of the reconstruction (checked under SpecFilter).            *)
(***************************************************************************)
\* The decode has ended, with a raster or with a panic.
Reconstructed == dpc = "unfilter" /\ doutcome # "running"

\* The bytes of a row of the raster, and the reference values of section 4.5
\* for row r and byte column c (both from 1), read in the returned raster
\* and in the inflated stream.
LineBytes == ihdr_data.width * BytesPerPixel(ihdr_data)
TagOf(r) == inflated_idats[(r - 1) * (LineBytes + 1) + 1]
InputAt(r, c) == inflated_idats[(r - 1) * (LineBytes + 1) + 1 + c]
OutputAt(r, c) == png_img.data[(r - 1) * LineBytes + c]
LeftOf(r, c) ==
    IF c > BytesPerPixel(ihdr_data) THEN OutputAt(r, c - BytesPerPixel(ihdr_data))
    ELSE 0
UpOf(r, c) == IF r > 1 THEN OutputAt(r - 1, c) ELSE 0
UpLeftOf(r, c) ==
    IF r > 1 /\ c > BytesPerPixel(ihdr_data)
    THEN OutputAt(r - 1, c - BytesPerPixel(ihdr_data))
    ELSE 0

\* C12: round trip: a raster filtered row by row with any of the five
\* filters and reconstructed with filter::unfilter (decode_no_check) comes
\* back byte for byte, on row 0 and on the rows after it.
C12_RoundTrip ==
    (Reconstructed /\ dentry = "decode_no_check") =>
        /\ doutcome = "Ok(Png)"
        /\ png_img.data = Flatten(original)

\* C13: every byte of a row tagged Average, row 0 included, is
\* reconstructed to (input + floor((up + left) / 2)) mod 256, the sum being
\* formed without 8-bit overflow, by unfilter and by unfilter_bis.
C13_AverageReconstructs ==
    doutcome = "Ok(Png)" =>
        \A r \in 1..ihdr_data.height : \A c \in 1..LineBytes :
            TagOf(r) = 3 =>
                OutputAt(r, c) =
                    (InputAt(r, c) + ((UpOf(r, c) + LeftOf(r, c)) \div 2)) % 256

\* C14: every row tagged Paeth is reconstructed, by unfilter and by
\* unfilter_bis, and each of its bytes to
\* (input + predictor(left, up, up_left)) mod 256.
C14_PaethReconstructs ==
    (Reconstructed /\ \E r \in 1..ihdr_data.height : filters[r] = 4) =>
        /\ doutcome = "Ok(Png)"
        /\ \A r \in 1..ihdr_data.height : \A c \in 1..LineBytes :
              TagOf(r) = 4 =>
                  OutputAt(r, c) =
                      (InputAt(r, c)
                       + PngPaeth(LeftOf(r, c), UpOf(r, c), UpLeftOf(r, c))) % 256

\* C16: every byte of a row tagged None is reconstructed to its input, of
\* a row tagged Sub to (input + left) mod 256 and of a row tagged Up to
\* (input + up) mod 256; the additions wrap, and a stream of such rows
\* never makes the reconstruction panic.
C16_NoneSubUpReconstruct ==
    Reconstructed =>
        /\ (\A r \in 1..ihdr_data.height : filters[r] \in {0, 1, 2}) =>
              doutcome = "Ok(Png)"
        /\ doutcome = "Ok(Png)" =>
              \A r \in 1..ihdr_data.height : \A c \in 1..LineBytes :
                  /\ TagOf(r) = 0 => OutputAt(r, c) = InputAt(r, c)
                  /\ TagOf(r) = 1 =>
                        OutputAt(r, c) = (InputAt(r, c) + LeftOf(r, c)) % 256
                  /\ TagOf(r) = 2 =>
                        OutputAt(r, c) = (InputAt(r, c) + UpOf(r, c)) % 256

\* C16 witness: unfilter reconstructed a Sub row and an Up row below it, and
\* an addition wrapped in each: 1 + 255 gives 0.
C16_Witness ==
    /\ dentry = "decode_no_check"
    /\ doutcome = "Ok(Png)"
    /\ inflated_idats = <<1, 255, 1, 2, 1, 0>>
    /\ png_img.data = <<255, 0, 0, 0>>

\* C19: end to end, the pixel buffer decode_no_check returns for a
\* well-formed stream of a non-palette colour type is the reconstruction of
\* the inflated bytes with the width, height and bpp of the IHDR; and
\* IHDR(2, 2, Gray, 8) with the inflated bytes 0,10,20, 2,5,5 decodes to
\* 10,20,15,25.
C19_EndToEnd ==
    /\ (Reconstructed /\ dentry = "decode_no_check") =>
          /\ doutcome = "Ok(Png)"
          /\ png_img.data =
                PngReconstruct(inflated_idats, LineBytes, ihdr_data.height,
                               BytesPerPixel(ihdr_data), 1, <<>>)
    /\ LET ihdr == [width |-> 2, height |-> 2, bit_depth |-> 8,
                    color_type |-> "Gray"]
           lines == lines_slices(<<0, 10, 20, 2, 5, 5>>,
                                 AsUsize(scanline_width(FALSE, ihdr).value))
       IN \A checks \in BOOLEAN :
             png_unfilter(checks, ihdr, lines.lines).png.data = <<10, 20, 15, 25>>

\* C20: the raster returned has a data buffer of height * width * bpp
\* bytes, row-major without padding or filter-type bytes (the bytes of row
\* r are at the indices from r * width * bpp on), and the width, height,
\* colour type and bytes_per_pixel = channels * max(1, bit_depth / 8) of the
\* IHDR.  The rows are told apart by their content where the raster comes
\* back as it was filtered: row 0 is not filtered with Average.
C20_RasterLayout ==
    doutcome = "Ok(Png)" =>
        /\ Len(png_img.data) =
              ihdr_data.height * ihdr_data.width * png_img.bytes_per_pixel
        /\ png_img.width = ihdr_data.width
        /\ png_img.height = ihdr_data.height
        /\ png_img.color_type = ihdr_data.color_type
        /\ png_img.bytes_per_pixel =
              Channels(ihdr_data.color_type)
              * (IF ihdr_data.bit_depth \div 8 > 1 THEN ihdr_data.bit_depth \div 8
                 ELSE 1)
        /\ filters[1] # 3 =>
              \A r \in 1..ihdr_data.height :
                  SubSeq(png_img.data, (r - 1) * LineBytes + 1, r * LineBytes)
                      = original[r]

\* C20 witness: unfilter returned the raster of a 1 x 2 image of two bytes
\* per pixel, whose rows differ: four bytes, the two of row 0 first.
C20_Witness ==
    /\ dentry = "decode_no_check"
    /\ doutcome = "Ok(Png)"
    /\ ihdr_data = [width |-> 1, height |-> 2, bit_depth |-> 16,
                    color_type |-> "Gray"]
    /\ filters = <<1, 2>>
    /\ png_img = [width |-> 1, height |-> 2, color_type |-> "Gray",
                  bytes_per_pixel |-> 2, data |-> <<255, 0, 0, 255>>]

(***************************************************************************)
(* Properties of paeth_predictor (checked under SpecPaeth).                *)
(***************************************************************************)
\* C15: paeth_predictor returns left if pa <= pb and pa <= pc, else up if
\* pb <= pc, else up_left, with p = left + up - up_left as a signed integer
\* and pa, pb, pc the distances of p to left, up and up_left; ties go to
\* left, then up, then up_left.
C15_PaethPredictor ==
    paeth_ret # -1 =>
        LET left == paeth_args[1]
            up == paeth_args[2]
            up_left == paeth_args[3]
            p == left + up - up_left
            pa == IF p >= left THEN p - left ELSE left - p
            pb == IF p >= up THEN p - up ELSE up - p
            pc == IF p >= up_left THEN p - up_left ELSE up_left - p
        IN /\ (pa <= pb /\ pa <= pc) => paeth_ret = left
           /\ (~(pa <= pb /\ pa <= pc) /\ pb <= pc) => paeth_ret = up
           /\ (~(pa <= pb /\ pa <= pc) /\ ~(pb <= pc)) => paeth_ret = up_left
           /\ (pa = pb /\ pb <= pc) => paeth_ret = left

\* C15 witness: left = 0, up = 3, up_left = 2 gives pa = pc = 1 < pb = 2,
\* a tie of left and up_left, and left is returned.
C15_Witness ==
    /\ paeth_args = <<0, 3, 2>>
    /\ paeth_ret = 0

(***************************************************************************)
(* Properties of inflate_idats (checked under SpecInflate).                *)
(***************************************************************************)
\* What the call returned: its result and, for Ok, the buffer.
Returned ==
    [result |-> iresult, ret |-> IF iresult = "Ok" THEN inflate_ret ELSE <<>>]

\* C17: inflation is independent of the chunking: for a stream split into
\* more than one IDAT payload, empty ones included, inflate_idats returns
\* what it returns for the stream given as a single payload.
C17_ChunkingIndependent ==
    (ipc = "returned" /\ Len(idats) > 1 /\ \A k \in 1..Len(idats) : Whole(k)) =>
        Returned = inflate_idats(<<Flatten(idats)>>)

\* C17 witness: a stream cut inside a run (after the byte 1, before its
\* count) was inflated to the thirteen bytes of the whole stream, the
\* decompressor having carried its state over the cut.
C17_Witness ==
    /\ idats = << <<8, 12, 1>>, <<12, 0>> >>
    /\ ipc = "returned"
    /\ iresult = "Ok"
    /\ inflate_ret = [i \in 1..13 |-> 12]

\* C18: a needs-more-input status on a chunk other than the last is no
\* error: the next invocation, if any, gets the next chunk from its first
\* byte on; on the last chunk it is the last invocation and inflate_idats
\* returns an error and no buffer.
C18_NeedsMoreInput ==
    \A k \in 1..Len(icalls) :
        icalls[k].status = "NeedsMoreInput" =>
            IF icalls[k].id = Len(idats)
            THEN /\ k = Len(icalls)
                 /\ ipc = "returned"
                 /\ Returned = [result |-> "Err", ret |-> <<>>]
            ELSE IF k < Len(icalls)
                 THEN /\ icalls[k + 1].id = icalls[k].id + 1
                      /\ icalls[k + 1].input = idats[icalls[k].id + 1]
                 ELSE /\ iresult = "running"
                      /\ \/ ipc = "for" /\ chunk_id = icalls[k].id
                         \/ /\ ipc = "loop"
                            /\ chunk_id = icalls[k].id + 1
                            /\ in_pos = 0

\* C18 witness: the first of two chunks ended in needs-more-input and the
\* second was invoked; it ended in needs-more-input too, and the call
\* returned an error.
C18_Witness ==
    /\ idats = << <<8>>, <<12>> >>
    /\ Len(icalls) = 2
    /\ icalls[1].status = "NeedsMoreInput"
    /\ icalls[2].status = "NeedsMoreInput"
    /\ iresult = "Err"

(***************************************************************************)
(* Properties of parse_ihdr_data and scanline_width (checked under         *)
(* SpecIhdr).                                                              *)
(***************************************************************************)
\* channels(color_type) of the specification.
PngChannels(color_type) ==
    CASE color_type = "Gray" -> 1
      [] color_type = "GrayAlpha" -> 2
      [] color_type = "RGB" -> 3
      [] color_type = "RGBA" -> 4

\* 1 + width * channels(color_type) * max(1, bit_depth / 8) of the
\* specification, as the number it is: its digits in base 2^16, the most
\* significant one first (the number can be 2^32 or more).
PngScanlineWidth(ihdr) ==
    LET per_channel == IF ihdr.bit_depth \div 8 >= 1 THEN ihdr.bit_depth \div 8
                       ELSE 1
        k == PngChannels(ihdr.color_type) * per_channel
        low == (ihdr.width % Half) * k + 1
        high == (ihdr.width \div Half) * k + low \div Half
    IN <<high \div Half, high % Half, low % Half>>

\* scanline_width was called on an IHDR that is no palette image.
StrideComputed ==
    /\ hpc = "done" /\ ihdr_parsed.ok
    /\ ihdr_parsed.ihdr.color_type \in {"Gray", "GrayAlpha", "RGB", "RGBA"}

\* C21: for every IHDR with colour type Gray, GrayAlpha, RGB or RGBA,
\* scanline_width returns 1 + width * channels * max(1, bit_depth / 8);
\* for width 10, RGBA and bit depth 8 it returns 41.
C21_ScanlineWidth ==
    /\ StrideComputed =>
          /\ ~stride.panic
          /\ <<0>> \o stride.value = PngScanlineWidth(ihdr_parsed.ihdr)
    /\ \A checks \in BOOLEAN :
          scanline_width(checks, [width |-> 10, height |-> 1, bit_depth |-> 8,
                                  color_type |-> "RGBA"])
             = [panic |-> FALSE, value |-> ToU32(41)]

(***************************************************************************)
(* Properties of the data path on a palette image (checked under           *)
(* SpecDecode).                                                            *)
(***************************************************************************)
\* The decode got past inflate_idats on a palette image and ended: it
\* attempted the reconstruction, which starts with scanline_width.
PaletteReconstructionEnded ==
    /\ ihdr_data.color_type = "PLTE"
    /\ dpc \in {"lines", "unfilter"}
    /\ doutcome # "running"

\* C22: an IHDR whose colour type is Palette (code 3) is accepted by the
\* IHDR parser, and a decode that attempts the reconstruction for it ends
\* in an error result (UnsupportedError) and produces no raster.
C22_PaletteUnsupported ==
    /\ LET r == parse_ihdr_data(<<0, 0, 0, 1, 0, 0, 0, 1, 8, 3, 0, 0, 0>>)
       IN r.ok /\ r.ihdr.color_type = "PLTE"
    /\ PaletteReconstructionEnded => (doutcome = "Err" /\ png_img = NoPng)

(***************************************************************************)
(* Properties of the colour-type byte (checked under SpecIhdr).            *)
(***************************************************************************)
\* parse_ihdr_data was called on 13 bytes; the tenth is the colour type.
ParsedThirteen == hpc # "parse_ihdr_data" /\ Len(ihdr_chunk_data) = 13

\* The colour type of a code: ColorType::PLTE is the palette colour type.
ColorTypeOfCode(c) ==
    CASE c = 0 -> "Gray"
      [] c = 2 -> "RGB"
      [] c = 3 -> "PLTE"
      [] c = 4 -> "GrayAlpha"
      [] c = 6 -> "RGBA"

\* parse_ihdr_data maps the codes 0, 2, 3, 4, 6 to Gray, RGB, Palette,
\* GrayAlpha, RGBA and fails for every other code 0..255.
ColorCodeParsed ==
    ParsedThirteen =>
        IF ihdr_chunk_data[10] \in {0, 2, 3, 4, 6}
        THEN /\ ihdr_parsed.ok
             /\ ihdr_parsed.ihdr.color_type = ColorTypeOfCode(ihdr_chunk_data[10])
        ELSE ~ihdr_parsed.ok

\* C23: parse_ihdr_data maps the colour-type codes 0, 2, 3, 4, 6 to Gray,
\* RGB, Palette, GrayAlpha, RGBA and fails for every other code 0..255, and
\* a decode whose IHDR carries such a code ends in an error result
\* (FormatError), not a raster.
C23_ColorCodes ==
    /\ ColorCodeParsed
    /\ (ParsedThirteen /\ ihdr_chunk_data[10] \notin {0, 2, 3, 4, 6}
          /\ hpc = "done") => houtcome = "Err"

(***************************************************************************)
(* Properties of Png::get (checked under SpecGet).                         *)
(***************************************************************************)
\* The bytes of pixel (x, y) in a row-major raster.
PixelBytes(png, x, y) ==
    SubSeq(png.data, (y * png.width + x) * png.bytes_per_pixel + 1,
           (y * png.width + x + 1) * png.bytes_per_pixel)

\* C24: Png::get(x, y) is bounds-checked: for x < width and y < height it
\* returns the bytes_per_pixel bytes of pixel (x, y); for x >= width or
\* y >= height it fails and returns no bytes of another pixel.
C24_GetBoundsChecked ==
    get_args # <<>> =>
        LET x == get_args[1]
            y == get_args[2]
        IN IF x < png_img.width /\ y < png_img.height
           THEN get_ret = [panic |-> FALSE, slice |-> PixelBytes(png_img, x, y)]
           ELSE get_ret.panic

(***************************************************************************)
(* Further properties of the chunk-ordering fold (checked under Spec).     *)
(***************************************************************************)
\* The chunk types of the comment table of chunk.rs that must not repeat.
OnceOnly ==
    { "IEND", "cHRM", "gAMA", "iCCP", "sBIT", "sRGB", "bKGD", "hIST", "tRNS",
      "pHYs", "tIME" }

\* C25: in every accepted chunk sequence each of IEND, cHRM, gAMA, iCCP,
\* sBIT, sRGB, bKGD, hIST, tRNS, pHYs and tIME occurs at most once, and a
\* sequence with a second chunk of one of these types is rejected at that
\* second chunk.
C25_OnceOnly ==
    \A t \in OnceOnly :
        Cardinality(Positions(chunks, t)) >= 2 =>
            /\ VRejected
            /\ Cardinality(Positions(chunks, t)) = 2
            /\ chunks[Len(chunks)] = t

\* C25 witness: a second tIME after the IDAT was rejected.
C25_Witness ==
    /\ chunks = <<"IHDR", "tIME", "IDAT", "tIME">>
    /\ vresult = "Unauthorized chunk"

\* A chunk of one of the types ts comes after a chunk of type t in s.
After(s, ts, t) ==
    \E i \in 1..Len(s), j \in 1..Len(s) : i < j /\ s[i] = t /\ s[j] \in ts

\* C26: in every accepted chunk sequence no cHRM, gAMA, iCCP, sBIT or sRGB
\* chunk comes after a PLTE or after an IDAT, and no bKGD, hIST, tRNS, pHYs
\* or sPLT chunk comes after an IDAT.
C26_AncillaryOrder ==
    ~VRejected =>
        /\ ~After(chunks, {"cHRM", "gAMA", "iCCP", "sBIT", "sRGB"}, "PLTE")
        /\ ~After(chunks, {"cHRM", "gAMA", "iCCP", "sBIT", "sRGB"}, "IDAT")
        /\ ~After(chunks, {"bKGD", "hIST", "tRNS", "pHYs", "sPLT"}, "IDAT")

\* C26 witness: sPLT, which may repeat before the IDAT, was rejected after it.
C26_Witness ==
    /\ chunks = <<"IHDR", "sPLT", "sPLT", "IDAT", "sPLT">>
    /\ vresult = "Unauthorized chunk"

\* The transition table of section 4.2 of the specification, folded from
\* authorized = {IHDR}.  seen is the set of the types accepted so far.
ALL_POST_IHDR == KnownChunkTypes \ {"IHDR", "IEND"}

TableEffect(seen, a, t) ==
    CASE t = "IHDR" -> ALL_POST_IHDR
      [] t = "PLTE" -> a \ {"PLTE", "gAMA", "cHRM", "sRGB", "iCCP", "sBIT"}
      [] t = "IDAT" ->
           IF "IDAT" \in seen THEN a
           ELSE (a \ {"PLTE", "tRNS", "gAMA", "cHRM", "sRGB", "iCCP", "bKGD",
                      "pHYs", "sBIT", "sPLT", "hIST"}) \cup {"IEND"}
      [] t = "IEND" -> {}
      [] t \in {"cHRM", "gAMA", "iCCP", "sBIT", "sRGB"} -> a \ {t}
      [] t \in {"bKGD", "hIST", "tRNS"} -> a \ {"PLTE", t}
      [] t = "pHYs" -> a \ {t}
      [] t = "sPLT" -> a
      [] t = "tIME" -> (IF "IDAT" \in seen THEN a \ {"IDAT"} ELSE a) \ {t}
      [] t \in {"iTXt", "tEXt", "zTXt"} ->
           IF "IDAT" \in seen THEN a \ {"IDAT"} ELSE a

\* The fold of the table over the first n chunks of s: whether all of them
\* were accepted, and the sets after the last accepted one.
RECURSIVE TableFold(_, _)
TableFold(s, n) ==
    IF n = 0 THEN [ok |-> TRUE, seen |-> {}, authorized |-> {"IHDR"}]
    ELSE LET f == TableFold(s, n - 1) IN
         IF ~f.ok \/ s[n] \notin f.authorized
         THEN [ok |-> FALSE, seen |-> f.seen, authorized |-> f.authorized]
         ELSE [ok |-> TRUE, seen |-> f.seen \cup {s[n]},
               authorized |-> TableEffect(f.seen, f.authorized, s[n])]

\* C27: the validator reproduces the transition table: a chunk is rejected
\* exactly when its type is not in the authorized set of the table at
\* that point, and after each accepted chunk the authorized set of
\* validate_chunk is the one of the fold of the table.
C27_TableEquivalence ==
    IF VRejected
    THEN LET f == TableFold(chunks, Len(chunks) - 1) IN
         /\ f.ok
         /\ f.authorized = authorized
         /\ chunks[Len(chunks)] \notin f.authorized
    ELSE /\ TableFold(chunks, Len(chunks)).ok
         /\ TableFold(chunks, Len(chunks)).authorized = authorized

\* C27 witness: after IHDR, PLTE, tRNS, a first IDAT and tIME, the code
\* holds what the table gives: IEND and the three text chunks.
C27_Witness ==
    /\ chunks = <<"IHDR", "PLTE", "tRNS", "IDAT", "tIME">>
    /\ vresult = "folding"
    /\ authorized = {"IEND", "tEXt", "zTXt", "iTXt"}

\* C28: whenever the decompressor reports needs-more-output, inflate_idats
\* makes the buffer strictly longer before the next invocation, whatever
\* the amount of output produced so far (zero included) and however small
\* the initial buffer was.
C28_BufferGrows ==
    \A k \in 1..Len(icalls) :
        icalls[k].status = "HasMoreOutput" =>
            IF k < Len(icalls) THEN icalls[k + 1].len > icalls[k].len
            ELSE Len(inflate_ret) > icalls[k].len

\* C29: growing the buffer leaves the bytes produced so far, in_pos and
\* out_pos as they are: the next invocation gets the input of the same
\* chunk that was not consumed yet, and writes from out_pos on, behind the
\* bytes produced so far.
C29_GrowthKeepsProgress ==
    \A k \in 1..Len(icalls) :
        icalls[k].status = "HasMoreOutput" =>
            /\ SubSeq(inflate_ret, 1, Len(icalls[k].produced)) = icalls[k].produced
               \/ k < Len(icalls)
            /\ k = Len(icalls) =>
                  /\ chunk_id = icalls[k].id
                  /\ out_pos = icalls[k].at + icalls[k].out_consumed
                  /\ in_pos = Len(idats[chunk_id]) - Len(icalls[k].input)
                                 + icalls[k].in_consumed
            /\ k < Len(icalls) =>
                  /\ icalls[k + 1].id = icalls[k].id
                  /\ icalls[k + 1].input =
                        SubSeq(icalls[k].input, icalls[k].in_consumed + 1,
                               Len(icalls[k].input))
                  /\ icalls[k + 1].at = icalls[k].at + icalls[k].out_consumed
                  /\ icalls[k + 1].before = icalls[k].produced

\* C29 witness: the run of twelve bytes filled the buffer of eight bytes;
\* the second invocation got the rest of the input and wrote behind the
\* eight bytes.
C29_Witness ==
    /\ idats = << <<8, 12, 1, 12>> >>
    /\ Len(icalls) = 2
    /\ icalls[1].status = "HasMoreOutput"
    /\ icalls[1].produced = [i \in 1..8 |-> 12]
    /\ icalls[2].at = 8
    /\ icalls[2].before = [i \in 1..8 |-> 12]

\* C30: the payloads are fed to one decompressor instance in chunk order:
\* the first invocation gets a new decompressor and the first chunk, each
\* later one the decompressor as the invocation before left it and the
\* same chunk or the next one from its first byte on; an invocation carries
\* the has-more-input flag if and only if its chunk is not the last one.
C30_ChunkOrderAndFlag ==
    \A k \in 1..Len(icalls) :
        /\ icalls[k].more = (icalls[k].id # Len(idats))
        /\ icalls[k].state = IF k = 1 THEN NewDecompressor ELSE icalls[k - 1].left
        /\ IF k = 1
           THEN icalls[k].id = 1 /\ icalls[k].input = idats[1]
           ELSE \/ /\ icalls[k].id = icalls[k - 1].id
                   /\ icalls[k].input =
                         SubSeq(icalls[k - 1].input, icalls[k - 1].in_consumed + 1,
                                Len(icalls[k - 1].input))
                \/ /\ icalls[k].id = icalls[k - 1].id + 1
                   /\ icalls[k].input = idats[icalls[k].id]

\* C30 witness: the first of two chunks was invoked with the flag and the
\* second twice without it (the buffer was full in between), and the call
\* returned the thirteen bytes.
C30_Witness ==
    /\ idats = << <<8, 12, 1>>, <<12, 0>> >>
    /\ Len(icalls) = 3
    /\ icalls[1].more /\ icalls[1].id = 1
    /\ ~icalls[2].more /\ icalls[2].id = 2
    /\ ~icalls[3].more /\ icalls[3].id = 2
    /\ iresult = "Ok"

\* The bytes the invocations 1..k wrote into the buffer, in order: each one
\* wrote out_consumed bytes from the position of the cursor on.
RECURSIVE WrittenBy(_)
WrittenBy(k) ==
    IF k = 0 THEN <<>>
    ELSE WrittenBy(k - 1) \o
         SubSeq(icalls[k].produced, icalls[k].at + 1,
                icalls[k].at + icalls[k].out_consumed)

\* The output bytes the invocations 1..k reported, in total.
RECURSIVE ReportedBy(_)
ReportedBy(k) ==
    IF k = 0 THEN 0 ELSE ReportedBy(k - 1) + icalls[k].out_consumed

\* The call returned on the status Done of its last invocation.
ReturnedOnDone ==
    /\ ipc = "returned"
    /\ icalls # <<>>
    /\ icalls[Len(icalls)].status = "Done"

\* C31: when the decompressor reports done, inflate_idats returns Ok with a
\* buffer that is as long as the output bytes reported by all invocations
\* of the call together, and that holds the bytes the decompressor wrote
\* and nothing else: none of the zeros of the allocation is left behind
\* them.
C31_DoneTruncates ==
    ReturnedOnDone =>
        /\ iresult = "Ok"
        /\ Len(inflate_ret) = ReportedBy(Len(icalls))
        /\ inflate_ret = WrittenBy(Len(icalls))

\* C31 witness: the stream of four bytes got a buffer of eight bytes, of
\* which the decompressor wrote two; the call returned these two.
C31_Witness ==
    /\ idats = << <<8, 12, 8, 0>> >>
    /\ ReturnedOnDone
    /\ icalls[1].len = 8
    /\ inflate_ret = <<12, 8>>

(***************************************************************************)
(* Properties of filter::unfilter, unfilter_bis and unfilter_buffer        *)
(* (checked under SpecStrategies).                                         *)
(***************************************************************************)
\* The bytes of a line of the call, and of its first line.
StratLineBytes == strat_args.bpp * strat_args.width
FirstLine == SubSeq(strat_args.inflated, 2, 1 + StratLineBytes)
FirstTag == strat_args.inflated[1]

\* What the None and the Sub routine of the function called make of the
\* first line in a buffer of one line.
NoneRoutine ==
    IF strat_called = "unfilter_bis"
    THEN decode_none_bis(StratLineBytes, 1, strat_args.inflated, 0,
                         Zeros(StratLineBytes)).data
    ELSE decode_none(FirstLine, 0, Zeros(StratLineBytes)).data

SubRoutine ==
    IF strat_called = "unfilter_bis"
    THEN decode_sub_bis(strat_args.bpp, StratLineBytes, 1, strat_args.inflated,
                        0, Zeros(StratLineBytes)).data
    ELSE decode_sub(strat_args.bpp, FirstLine, 0, Zeros(StratLineBytes)).data

\* C32: row 0 degeneracy: in the buffer each of the three functions
\* returns, the bytes of the first scanline are, for a line tagged Up, the
\* bytes the None routine makes of that line, and for a line tagged Average
\* or Paeth, the bytes the Sub routine makes of it.
C32_RowZeroDegeneracy ==
    (strat_called # "none" /\ ~strat_ret.panic /\ strat_args.height >= 1) =>
        LET first == SubSeq(strat_ret.data, 1, StratLineBytes) IN
        /\ FirstTag = 2 => first = NoneRoutine
        /\ FirstTag \in {3, 4} => first = SubRoutine

\* C32 witness: unfilter got a first line tagged Paeth whose second byte
\* has a left neighbour of 255, and returned what Sub gives, 255 + 255 = 254
\* (mod 256), the line below being tagged None.
C32_Witness ==
    /\ strat_called = "unfilter"
    /\ strat_args = [width |-> 2, height |-> 2, bpp |-> 1,
                     inflated |-> <<4, 255, 255, 0, 0, 0>>]
    /\ strat_ret = [panic |-> FALSE, data |-> <<255, 254, 0, 0>>]

\* C34: the three reconstruction strategies are interchangeable: for every
\* width, height and bpp and every inflated buffer of height lines with
\* valid filter tags, unfilter, unfilter_bis and unfilter_buffer return the
\* same pixel buffer.
C34_StrategiesAgree ==
    strat_called # "none" =>
        /\ strat_ret = RunUnfilter(overflow_checks, strat_args)
        /\ strat_ret = RunUnfilterBis(strat_args)
        /\ strat_ret = RunUnfilterBuffer(strat_args)

(***************************************************************************)
(* Properties of the loops of unfilter, unfilter_bis and unfilter_buffer   *)
(* (checked under SpecSequence).                                           *)
(***************************************************************************)
\* What the function returns as a whole for the arguments of the run.
SeqWhole ==
    CASE seq_strategy = "unfilter" -> RunUnfilter(overflow_checks, seq_args)
      [] seq_strategy = "unfilter_bis" -> RunUnfilterBis(seq_args)
      [] seq_strategy = "unfilter_buffer" -> RunUnfilterBuffer(seq_args)

\* The iterations make what the function makes: the run ends as the
\* function does, with the same buffer.
StepsAgree ==
    /\ seq_pc = "returned" => SeqWhole = [panic |-> FALSE, data |-> seq_data]
    /\ seq_pc = "panic" => SeqWhole.panic

\* The run is inside a line: the lines before it are done.
InLine == seq_pc \in {"loop", "panic"}

\* The lines are reconstructed from the top: the lines above the one the
\* fold is at are reconstructed, byte for byte, and no byte of data is
\* written twice; of the line the fold is at, bytes up to seq_col; the lines
\* below are untouched, in data and in inflated.
TopToBottom ==
    /\ \A j \in 1..Len(seq_data) :
          LET r == (j - 1) \div SeqLen + 1
              c == ((j - 1) % SeqLen) + 1
          IN /\ seq_writes[j] <= 1
             /\ (seq_writes[j] = 1) = (seq_holds.data[j] = HoldsRecon(r, c))
             /\ seq_writes[j] = 0 => seq_holds.data[j] = HoldsZero
             /\ (r < seq_row \/ (r = seq_row /\ ~InLine)) => seq_writes[j] = 1
             /\ r > seq_row => seq_writes[j] = 0
             /\ (r = seq_row /\ InLine /\ c > seq_col) => seq_writes[j] = 0
    /\ \A j \in 1..Len(seq_inflated) :
          LET r == (j - 1) \div (SeqLen + 1) + 1
              c == (j - 1) % (SeqLen + 1)
          IN (r > seq_row /\ c > 0) =>
                /\ seq_holds.inflated[j] = HoldsRaw(r, c)
                /\ seq_inflated[j] = seq_args.inflated[j]

\* What the last iteration read: its own filtered byte, and as neighbours
\* the reconstructed bytes of the same line bpp columns to the left, of the
\* line above in the same column, and of the line above bpp columns to the
\* left.
ReadsInOrder ==
    \A rd \in seq_reads :
        /\ rd.role = "self" => rd.holds = HoldsRaw(seq_row, rd.col)
        /\ rd.role = "left" => rd.holds = HoldsRecon(seq_row, rd.col - seq_args.bpp)
        /\ rd.role = "up" => rd.holds = HoldsRecon(seq_row - 1, rd.col)
        /\ rd.role = "up_left" =>
              rd.holds = HoldsRecon(seq_row - 1, rd.col - seq_args.bpp)

\* A byte that is held as reconstructed in the scratch line or in inflated
\* is the byte data has for that line and column, once data has it.
ReconIsFinal ==
    LET Final(h, v) ==
            (h[1] = "recon" /\ seq_holds.data[(h[2] - 1) * SeqLen + h[3]] = h) =>
                v = seq_data[(h[2] - 1) * SeqLen + h[3]]
    IN /\ \A j \in 1..Len(seq_previous) : Final(seq_holds.previous[j], seq_previous[j])
       /\ \A j \in 1..Len(seq_inflated) : Final(seq_holds.inflated[j], seq_inflated[j])

\* C33: the sequencing invariant of the reconstruction, in unfilter,
\* unfilter_bis and unfilter_buffer: the lines are reconstructed from top to
\* bottom, and when a byte of line r and column c is computed, the
\* neighbours read are reconstructed bytes of line r - 1, which are final,
\* and bytes of line r left of c that are reconstructed already; no
\* filtered byte of a neighbour and no byte of a line below is read.
C33_Sequencing ==
    seq_strategy # "none" => TopToBottom /\ ReadsInOrder /\ ReconIsFinal

\* C33 witness: unfilter_bis is in the second line, tagged Paeth, and has
\* computed its second byte: the left neighbour was the byte of inflated it
\* had overwritten with the reconstructed byte 254 (the filtered byte was
\* 255) in the iteration before.
C33_Witness ==
    /\ seq_strategy = "unfilter_bis"
    /\ seq_args = [width |-> 2, height |-> 2, bpp |-> 1,
                   inflated |-> <<0, 255, 255, 4, 255, 0>>]
    /\ seq_row = 2 /\ seq_col = 2 /\ seq_routine = "paeth"
    /\ seq_inflated = <<0, 255, 255, 4, 254, 254>>
    /\ [col |-> 2, role |-> "left", holds |-> HoldsRecon(2, 1)] \in seq_reads
    /\ [col |-> 2, role |-> "up_left", holds |-> HoldsRecon(1, 1)] \in seq_reads

(***************************************************************************)
(* Properties of parse_chunks on complete inputs (checked under SpecFrame).*)
(***************************************************************************)
\* The 18 chunk types with a name, and the codes of the name.
PngChunkNames ==
    { <<"IHDR", <<73, 72, 68, 82>> >>, <<"PLTE", <<80, 76, 84, 69>> >>,
      <<"IDAT", <<73, 68, 65, 84>> >>, <<"IEND", <<73, 69, 78, 68>> >>,
      <<"tRNS", <<116, 82, 78, 83>> >>, <<"gAMA", <<103, 65, 77, 65>> >>,
      <<"cHRM", <<99, 72, 82, 77>> >>, <<"sRGB", <<115, 82, 71, 66>> >>,
      <<"iCCP", <<105, 67, 67, 80>> >>, <<"tEXt", <<116, 69, 88, 116>> >>,
      <<"zTXt", <<122, 84, 88, 116>> >>, <<"iTXt", <<105, 84, 88, 116>> >>,
      <<"bKGD", <<98, 75, 71, 68>> >>, <<"pHYs", <<112, 72, 89, 115>> >>,
      <<"sBIT", <<115, 66, 73, 84>> >>, <<"sPLT", <<115, 80, 76, 84>> >>,
      <<"hIST", <<104, 73, 83, 84>> >>, <<"tIME", <<116, 73, 77, 69>> >> }

\* The chunk type of four bytes: the type with that name, letter for
\* letter, or Unknown with the four bytes.
PngTypeOf(t) ==
    IF \E p \in PngChunkNames : p[2] = t
    THEN [variant |-> (CHOOSE p \in PngChunkNames : p[2] = t)[1], name |-> <<>>]
    ELSE [variant |-> "Unknown", name |-> t]

\* A name with the case of one letter changed (a letter and its other case
\* are 32 apart).
OtherCase(t, k) ==
    [t EXCEPT ![k] = IF @ >= 97 THEN @ - 32 ELSE @ + 32]

\* Where chunk i of the result starts in the input, if chunk 1 starts
\* behind the signature and each chunk behind the crc of the one before.
RECURSIVE ChunkOffset(_)
ChunkOffset(i) ==
    IF i = 1 THEN 8 ELSE ChunkOffset(i - 1) + 12 + facc[i - 1].length

\* parse_chunks returned for an input that is the signature and k >= 1
\* complete chunks.
ParsedComplete ==
    /\ fpc = "done"
    /\ fsent # <<>>
    /\ ftail = <<>>
    /\ finput = SIGNATURE \o EncodeAll(fsent)

\* C35: for an input made of the signature and k >= 1 complete chunks,
\* parse_chunks returns k chunks in the order of the input; chunk i has the
\* length of its big-endian length field, the type of the next four bytes
\* (one of the 18 names, letter for letter in the same case, otherwise
\* Unknown with these bytes, which is no failure), as data the next length
\* bytes of the input, and as crc the four bytes after them; chunk i + 1
\* starts behind the crc of chunk i.
C35_ParseChunksFields ==
    /\ ParsedComplete =>
          /\ fresult = "Ok"
          /\ Len(facc) = Len(fsent)
          /\ ChunkOffset(Len(facc) + 1) = Len(finput)
          /\ \A i \in 1..Len(facc) :
                LET at == ChunkOffset(i)
                    c == facc[i]
                IN /\ be_u32_bytes(c.length) = SubSeq(finput, at + 1, at + 4)
                   /\ c.chunk_type = PngTypeOf(SubSeq(finput, at + 5, at + 8))
                   /\ Len(c.data) = c.length
                   /\ c.data = SubSeq(finput, at + 9, at + 8 + c.length)
                   /\ c.crc = SubSeq(finput, at + 9 + c.length, at + 12 + c.length)
                   /\ c.data = fsent[i].data
    /\ \A p \in PngChunkNames :
          /\ ChunkTypeFrom(p[2]) = PngTypeOf(p[2])
          /\ \A k \in 1..4 :
                ChunkTypeFrom(OtherCase(p[2], k)) =
                    [variant |-> "Unknown", name |-> OtherCase(p[2], k)]

\* C35 witness: the input was IDAT with one byte of data and then IDAt
\* without data; parse_chunks returned the two chunks, the second as
\* Unknown with its name.
C35_Witness ==
    /\ ParsedComplete
    /\ fresult = "Ok"
    /\ facc = << [length |-> 1, chunk_type |-> [variant |-> "IDAT", name |-> <<>>],
                  data |-> <<7>>, crc |-> <<1, 2, 3, 4>>],
                 [length |-> 0,
                  chunk_type |-> [variant |-> "Unknown", name |-> <<73, 68, 65, 116>>],
                  data |-> <<>>, crc |-> <<1, 2, 3, 4>>] >>

(***************************************************************************)
(* Further properties of the chunk-ordering fold (checked under Spec).     *)
(***************************************************************************)
\* The chunks validate_chunk accepted so far: all that were handed to the
\* fold, but for the one that made it fail.
AcceptedChunks ==
    IF vresult \in {"folding", "Ok"} THEN chunks
    ELSE SubSeq(chunks, 1, Len(chunks) - 1)

\* C37: at every point of the validation, IEND is in the authorized set if
\* and only if an IDAT was accepted and no IEND was accepted yet; hence an
\* accepted sequence that contains IEND has an IDAT before it.
C37_IendIffIdat ==
    /\ ("IEND" \in authorized) =
          (/\ Positions(AcceptedChunks, "IDAT") # {}
           /\ Positions(AcceptedChunks, "IEND") = {})
    /\ vresult = "Ok" =>
          \A i \in Positions(chunks, "IEND") :
              \E j \in Positions(chunks, "IDAT") : j < i

\* C37 witness: the fold accepted IHDR, PLTE and a first IDAT, and IEND is
\* authorized now; it was not before the IDAT (START_CHUNKS has no IEND).
C37_Witness ==
    /\ chunks = <<"IHDR", "PLTE", "IDAT">>
    /\ vresult = "folding"
    /\ "IEND" \in authorized
    /\ "IEND" \notin START_CHUNKS

\* C38: when the decompressor reports done on a chunk that is not the last
\* one, inflate_idats returns Ok at once with the output produced so far:
\* that invocation is the last one, so what it left of its chunk and the
\* chunks behind it are never given to the decompressor.
C38_DoneReturnsAtOnce ==
    \A k \in 1..Len(icalls) :
        (icalls[k].status = "Done" /\ icalls[k].id < Len(idats)) =>
            /\ k = Len(icalls)
            /\ ipc = "returned"
            /\ iresult = "Ok"
            /\ inflate_ret = icalls[k].produced
            /\ chunk_id = icalls[k].id
            /\ in_pos = Len(idats[chunk_id]) - Len(icalls[k].input)
                           + icalls[k].in_consumed

\* C38 witness: the stream ended at the third of the four bytes of the
\* first chunk; the call returned the byte produced after one invocation,
\* with a byte of the first chunk and the second chunk left.
C38_Witness ==
    /\ idats = << <<8, 12, 0, 12>>, <<12>> >>
    /\ Len(icalls) = 1
    /\ icalls[1].status = "Done"
    /\ in_pos = 3
    /\ ipc = "returned"
    /\ iresult = "Ok"
    /\ inflate_ret = <<12>>

\* The decompressor came to the end of the first bytes of a chunk of 2^31
\* bytes: the call is not followed further.
HeadEnded ==
    /\ ipc = "loop"
    /\ ~Whole(chunk_id)
    /\ Invocation.status \in {"NeedsMoreInput", "Exhausted"}

\* C36: inflate_idats terminates for every finite list of IDAT chunks, the
\* decompressor reporting needs-more-output only when the buffer has no
\* room left: the inner loop does not repeat for ever on needs-more-output,
\* and every chunk is left after finitely many invocations.
C36_Terminates == <>(ipc = "returned" \/ HeadEnded)

\* The inflated bytes are there, the stride was computed, and one of the
\* scanlines the stream is split into starts with a byte that is not 0..4.
TagOutOfRange ==
    /\ ihdr_data # NoIHDR
    /\ dpc \in {"lines", "unfilter"}
    /\ LET w == scanline_width(overflow_checks, ihdr_data) IN
       /\ ~w.panic
       /\ AsUsize(w.value) > 0
       /\ \E i \in 1..Len(inflated_idats) :
            /\ (i - 1) % AsUsize(w.value) = 0
            /\ i + AsUsize(w.value) - 1 <= Len(inflated_idats)
            /\ inflated_idats[i] \notin 0..4

UnfilterStride(ihdr) ==
    LET low == (ihdr.width % Half) * BytesPerPixel(ihdr) + 1
        high == (ihdr.width \div Half) * BytesPerPixel(ihdr) + low \div Half
    IN <<high \div Half, high % Half, low % Half>>

\* One of the u32 operations of scanline_width goes beyond 2^32 - 1.
StrideWraps(ihdr) ==
    LET by_chanels == u32_mul(ToU32(ihdr.width), Channels(ihdr.color_type))
        by_bytes == u32_mul(by_chanels.value, BytesPerChannel(ihdr.bit_depth))
    IN by_chanels.overflow \/ by_bytes.overflow \/ u32_inc(by_bytes.value).overflow

\* C40: for every IHDR the parser accepts whose colour type is no palette,
\* whatever its 32-bit width and 8-bit bit depth, scanline_width is
\* 1 + width * bytes_per_pixel, bytes_per_pixel being the one of
\* png::unfilter, and its u32 arithmetic neither wraps nor traps.
C40_StrideNeverWraps ==
    StrideComputed =>
        /\ ~stride.panic
        /\ ~StrideWraps(ihdr_parsed.ihdr)
        /\ <<0>> \o stride.value = UnfilterStride(ihdr_parsed.ihdr)

====
